---- MODULE Spec2Model ----
(***************************************************************************)
(* Cell complex from planar primitives (abspy/complex.py).                 *)
(*                                                                         *)
(* Geometry is exact and restricted to axis-aligned primitives on an       *)
(* integer grid: a convex polyhedron is a box [lo, hi] (or empty), so      *)
(* intersection, dimension, vertices, centre and volume are computed       *)
(* exactly as the rational kernel computes them on such inputs.            *)
(***************************************************************************)
EXTENDS Integers, Sequences, FiniteSets, TLC

VARIABLES
    pc,                 \* position in the pipeline
    bounding_poly,      \* self.bounding_poly
    points,             \* self.points: the point groups given to the constructor
    bounds,             \* self.bounds: the bounding box of every primitive
    additional_planes,  \* self.additional_planes (<<>> for None)
    prio_mode,          \* argument of prioritise_planes
    exhaustive,         \* arguments of construct_abspy
    num_workers,
    index_node,         \* self.index_node
    prim_i,             \* construct_abspy: the primitive the loop handles next
    th, mode, ordering, \* arguments of construct_partition
    planes,             \* running array of plane parameters <<a, b, c, d>>
    halfspaces,         \* running array of <<positive, negative>> half-spaces
    point_groups,       \* running array of point groups
    plane_split_count,  \* running array of split counts
    clone_of,           \* history: for every entry of the running arrays, the id
                        \* it was copied from (Undefined for an input primitive)
    split_count,        \* self.split_count
    cell_count, neg_cell_count, pos_cell_count,
    tree,               \* treelib Tree: node id -> [parent, convex, plane_ids]
    queue,              \* pending nodes of tree.expand_tree
    graph,              \* networkx Graph
    cells,              \* self.cells
    labels,             \* label_cells: the array returned by the labeler
    edges,              \* simplify: the qualifying edges still to visit in this pass
    deleted_nodes,      \* simplify: nodes contracted away
    poly_calls,         \* number of calls of construct_polygons so far
    mesh,               \* the facets emitted by extract_surface / extract_soup
    polygon, outside,   \* arguments of a call of an orientation helper
    orientation,        \* what that call returned
    reference           \* the result of an earlier call of construct_partition

vars == <<pc, bounding_poly, points, bounds, additional_planes, prio_mode, exhaustive,
          num_workers, index_node, prim_i, th, mode, ordering, planes, halfspaces,
          point_groups, plane_split_count, clone_of, split_count, cell_count,
          neg_cell_count, pos_cell_count, tree, queue, graph, cells, labels, edges,
          deleted_nodes, poly_calls, mesh, polygon, outside, orientation, reference>>

\* the arguments and the result of a direct call of an orientation helper, and
\* the result kept from an earlier call of construct_partition
callVars == <<polygon, outside, orientation, reference>>

\* the fields and arguments that construct_partition and the steps after it
\* leave alone
inputVars == <<bounding_poly, points, bounds, additional_planes, prio_mode, exhaustive,
               num_workers, index_node, prim_i, th, mode, ordering>>

\* the running arrays and counters of construct_partition
partVars == <<planes, halfspaces, point_groups, plane_split_count, clone_of,
              split_count, cell_count, neg_cell_count, pos_cell_count>>

postVars == <<edges, deleted_nodes, poly_calls, mesh>>

----------------------------------------------------------------------------
(* Bounds of the model *)

GridMax == 2

MaxPlanes == 3

MaxTheta == 2

----------------------------------------------------------------------------
(* Sequences *)

Range(s) == {s[i] : i \in 1..Len(s)}

RECURSIVE SeqSum(_)
SeqSum(s) == IF s = <<>> THEN 0 ELSE Head(s) + SeqSum(Tail(s))

RECURSIVE SelectIds(_, _)
\* the elements of the sequence s that are in the set keep, in order
SelectIds(s, keep) ==
    IF s = <<>> THEN <<>>
    ELSE IF Head(s) \in keep THEN <<Head(s)>> \o SelectIds(Tail(s), keep)
         ELSE SelectIds(Tail(s), keep)

RECURSIVE SortedSeq(_)
\* the elements of a finite set of integers, ascending
SortedSeq(S) ==
    IF S = {} THEN <<>>
    ELSE LET m == CHOOSE x \in S : \A y \in S : x <= y
         IN <<m>> \o SortedSeq(S \ {m})

Undefined == 0 - 1

\* F applied to the value of e, with e evaluated once
Bind(e, F(_)) == CHOOSE y \in {F(x) : x \in {e}} : TRUE

----------------------------------------------------------------------------
(* Exact kernel on boxes *)

Axes == 1..3

Far == GridMax + 4

EmptyPoly == [lo |-> <<1, 1, 1>>, hi |-> <<0, 0, 0>>]

Box(lo, hi) == [lo |-> lo, hi |-> hi]

IsEmpty(p) == \E k \in Axes : p.lo[k] > p.hi[k]

\* Polyhedron.dim(): -1 for the empty polyhedron
Dim(p) == IF IsEmpty(p) THEN -1 ELSE Cardinality({k \in Axes : p.lo[k] < p.hi[k]})

Max(a, b) == IF a >= b THEN a ELSE b

Min(a, b) == IF a <= b THEN a ELSE b

\* a faulty intersection that returns the first operand whenever the two meet
IntersectionKeepsFirst(p, q) ==
    LET r == [lo |-> [k \in Axes |-> Max(p.lo[k], q.lo[k])],
              hi |-> [k \in Axes |-> Min(p.hi[k], q.hi[k])]]
    IN IF IsEmpty(p) \/ IsEmpty(q) \/ IsEmpty(r) THEN EmptyPoly ELSE p

\* Polyhedron.intersection
Intersection(p, q) ==
    LET r == [lo |-> [k \in Axes |-> Max(p.lo[k], q.lo[k])],
              hi |-> [k \in Axes |-> Min(p.hi[k], q.hi[k])]]
    IN IF IsEmpty(p) \/ IsEmpty(q) \/ IsEmpty(r) THEN EmptyPoly ELSE r

\* Polyhedron.convex_hull of two boxes whose union is a box
ConvexHull(p, q) ==
    [lo |-> [k \in Axes |-> Min(p.lo[k], q.lo[k])],
     hi |-> [k \in Axes |-> Max(p.hi[k], q.hi[k])]]

\* Polyhedron.volume
Volume(p) ==
    IF IsEmpty(p) THEN 0
    ELSE (p.hi[1] - p.lo[1]) * (p.hi[2] - p.lo[2]) * (p.hi[3] - p.lo[3])

\* Polyhedron.vertices_list(), as a set of points
Vertices(p) ==
    IF IsEmpty(p) THEN {}
    ELSE {<<x, y, z>> : x \in {p.lo[1], p.hi[1]}, y \in {p.lo[2], p.hi[2]},
                        z \in {p.lo[3], p.hi[3]}}

\* twice Polyhedron.center() (the mean of the vertices), kept integral
Center2(p) == [k \in Axes |-> p.lo[k] + p.hi[k]]

\* the axis of an axis-aligned plane <<a, b, c, d>>
AxisOf(pl) == CHOOSE k \in Axes : pl[k] # 0

\* the coordinate at which the plane sits: a * x + d = 0
OffsetOf(pl) == IF pl[AxisOf(pl)] > 0 THEN -pl[4] ELSE pl[4]

\* Polyhedron(ieqs=[[d, a, b, c]]): d + a x + b y + c z >= 0
IeqPoly(d, a, b, c) ==
    LET n == <<a, b, c>>
        k == CHOOSE j \in Axes : n[j] # 0
        off == IF n[k] > 0 THEN -d ELSE d
    IN [lo |-> [j \in Axes |-> IF j = k /\ n[k] > 0 THEN off ELSE -Far],
        hi |-> [j \in Axes |-> IF j = k /\ n[k] < 0 THEN off ELSE Far]]

\* VertexGroup._inequalities followed by Polyhedron(ieqs=...)
Halfspaces(pl) ==
    <<IeqPoly(pl[4], pl[1], pl[2], pl[3]), IeqPoly(-pl[4], -pl[1], -pl[2], -pl[3])>>

\* plane[0] * x + plane[1] * y + plane[2] * z + plane[3]
WhichSide(pl, pt) == pl[1] * pt[1] + pl[2] * pt[2] + pl[3] * pt[3] + pl[4]

----------------------------------------------------------------------------
(* Input primitives *)

BoundingPoly == Box(<<0, 0, 0>>, <<GridMax, GridMax, GridMax>>)

Prim(pl, pts) == [plane |-> pl, points |-> pts]

\* planes x = 1, y = 1, z = 1, and x = 1, z = 1 with the opposite orientation
PX == <<1, 0, 0, -1>>

PY == <<0, 1, 0, -1>>

PZ == <<0, 0, 1, -1>>

PXneg == <<-1, 0, 0, 1>>

PZneg == <<0, 0, -1, 1>>

G == GridMax

Catalogue ==
    { Prim(PX, <<<<1, 0, 0>>, <<1, G, 0>>, <<1, 0, G>>, <<1, G, G>>>>),   \* spans the box
      Prim(PZneg, <<<<0, 0, 1>>, <<G, 0, 1>>, <<0, G, 1>>, <<G, G, 1>>>>),\* spans the box
      Prim(PY, <<<<0, 1, 0>>, <<0, 1, G>>>>),                             \* only at x = 0
      Prim(PXneg, <<<<0, 0, 0>>, <<0, G, 0>>, <<G, 0, 0>>, <<G, G, 0>>>>),\* inliers on both sides
      Prim(PZ, <<<<0, 0, 1>>, <<0, G, 1>>, <<G, 0, 1>>>>),                \* two left, one right
      Prim(PXneg, <<<<1, 0, 0>>, <<1, G, G>>, <<1, 0, G>>>>),             \* inliers on the plane
      Prim(PX, <<<<G, 0, 0>>, <<G, G, G>>>>) }                            \* inliers on one side

RECURSIVE SeqsOf(_, _)
\* the sequences of n distinct elements of S
SeqsOf(S, n) ==
    IF n = 0 THEN {<<>>}
    ELSE UNION {{<<x>> \o s : s \in SeqsOf(S \ {x}, n - 1)} : x \in S}

Inputs == UNION {SeqsOf(Catalogue, n) : n \in 1..MaxPlanes}

\* a scene of six walls around a block strictly inside a larger box
EncMax == GridMax + 3

EncHi == EncMax - 1

EnclosureBox == Box(<<0, 0, 0>>, <<EncMax, EncMax, EncMax>>)

\* the wall at coordinate o of axis k, with two inliers over the block
Wall(k, o) ==
    Prim([j \in 1..4 |-> IF j = k THEN 1 ELSE IF j = 4 THEN -o ELSE 0],
         <<[j \in Axes |-> IF j = k THEN o ELSE 2], [j \in Axes |-> IF j = k THEN o ELSE 3]>>)

\* a second detection of the wall x = EncHi, with the opposite normal, whose
\* inliers scatter on both sides
WallAgain ==
    Prim(<<-1, 0, 0, EncHi>>,
         <<<<3, 2, 2>>, <<3, 3, 3>>, <<EncMax, 2, 2>>, <<EncMax, 3, 3>>>>)

Enclosure == <<Wall(1, 1), Wall(1, EncHi), Wall(2, 1), Wall(2, EncHi), Wall(3, 1), Wall(3, EncHi)>>

EnclosureInputs ==
    { Enclosure,
      <<Wall(1, 1), Wall(1, EncHi), WallAgain, Wall(2, 1), Wall(2, EncHi), Wall(3, 1),
        Wall(3, EncHi)>> }

\* a scene in which a primitive is cut twice: the planes x = 2 and z = 2, and a
\* primitive on y = 2 with inliers in three of the four quadrants they make
Ridge ==
    <<Prim(<<1, 0, 0, -2>>, <<<<2, 0, 0>>, <<2, 4, 4>>, <<2, 0, 4>>>>),
      Prim(<<0, 0, 1, -2>>, <<<<0, 0, 2>>, <<1, 4, 2>>, <<1, 0, 2>>>>),
      Prim(<<0, 1, 0, -2>>, <<<<0, 2, 0>>, <<1, 2, 0>>, <<0, 2, 4>>, <<1, 2, 4>>,
                              <<3, 2, 0>>, <<4, 2, 0>>>>)>>

\* a scene in which a group loses a point without being cloned: the planes
\* x = 2 and z = 2, and a primitive on y = 2 with two inliers at x < 2 and one
\* at x > 2
Sliver ==
    <<Prim(<<1, 0, 0, -2>>, <<<<2, 0, 0>>, <<2, 4, 4>>, <<2, 0, 4>>>>),
      Prim(<<0, 0, 1, -2>>, <<<<0, 0, 2>>, <<1, 4, 2>>, <<1, 0, 2>>>>),
      Prim(<<0, 1, 0, -2>>, <<<<0, 2, 0>>, <<1, 2, 4>>, <<3, 2, 0>>>>)>>

\* VertexGroup._points_bound: the axis-aligned bounding box of a point group
PointsBound(pts) ==
    [lo |-> [k \in Axes |-> CHOOSE m \in {pts[i][k] : i \in 1..Len(pts)} :
                               \A i \in 1..Len(pts) : m <= pts[i][k]],
     hi |-> [k \in Axes |-> CHOOSE m \in {pts[i][k] : i \in 1..Len(pts)} :
                               \A i \in 1..Len(pts) : m >= pts[i][k]]]

Scenes ==
    {[box |-> BoundingPoly, prims |-> inp] : inp \in Inputs}
        \cup {[box |-> EnclosureBox, prims |-> inp] : inp \in EnclosureInputs \cup {Ridge, Sliver}}

----------------------------------------------------------------------------
(* networkx Graph: nodes in insertion order, adjacency in insertion order,  *)
(* node attributes convex / occupancy / float_occupancy, edge attributes     *)
(* keyed by the pair                                                        *)

EmptyGraph ==
    [nodes |-> <<>>, adj |-> <<>>, convex |-> <<>>, occ |-> <<>>, float_occupancy |-> <<>>,
     edge |-> <<>>]

NodeSet(g) == Range(g.nodes)

HasEdge(g, u, v) == {u, v} \in DOMAIN g.edge

\* Graph.add_node(n, convex=c)
AddNode(g, n, c) ==
    [g EXCEPT !.nodes = IF n \in Range(@) THEN @ ELSE Append(@, n),
              !.adj = IF n \in DOMAIN @ THEN @ ELSE @ @@ (n :> <<>>),
              !.convex = (n :> c) @@ @]

\* a node created implicitly by add_edge carries no attribute
TouchNode(g, n) ==
    IF n \in Range(g.nodes) THEN g
    ELSE [g EXCEPT !.nodes = Append(@, n), !.adj = @ @@ (n :> <<>>)]

\* Graph.add_edge(u, v, **attr)
AddEdge(g, u, v, attr) ==
    LET g1 == TouchNode(TouchNode(g, u), v)
    IN IF HasEdge(g1, u, v)
       THEN [g1 EXCEPT !.edge = ({u, v} :> attr) @@ @]
       ELSE [g1 EXCEPT !.adj = IF u = v THEN [@ EXCEPT ![u] = Append(@, u)]
                                ELSE [@ EXCEPT ![u] = Append(@, v), ![v] = Append(@, u)],
                       !.edge = ({u, v} :> attr) @@ @]

Restrict(f, S) == [x \in S |-> f[x]]

\* Graph.remove_node(n): the node and its incident edges
RemoveNode(g, n) ==
    LET keep == Range(g.nodes) \ {n}
    IN [nodes |-> SelectIds(g.nodes, keep),
        adj |-> [m \in keep |-> SelectIds(g.adj[m], keep)],
        convex |-> Restrict(g.convex, (DOMAIN g.convex) \ {n}),
        occ |-> Restrict(g.occ, (DOMAIN g.occ) \ {n}),
        float_occupancy |-> Restrict(g.float_occupancy, (DOMAIN g.float_occupancy) \ {n}),
        edge |-> Restrict(g.edge, {e \in DOMAIN g.edge : n \notin e})]

\* list(graph.edges): each edge once, from the node that comes first
RECURSIVE EdgesFrom(_, _, _)
EdgesFrom(g, ns, seen) ==
    IF ns = <<>> THEN <<>>
    ELSE LET n == Head(ns)
             nb == SelectIds(g.adj[n], Range(g.nodes) \ seen)
         IN [i \in 1..Len(nb) |-> <<n, nb[i]>>] \o EdgesFrom(g, Tail(ns), seen \cup {n})

EdgeList(g) == EdgesFrom(g, g.nodes, {})

\* nx.get_node_attributes(graph, "convex").values()
RECURSIVE ConvexList(_, _)
ConvexList(g, ns) ==
    IF ns = <<>> THEN <<>>
    ELSE IF Head(ns) \in DOMAIN g.convex
         THEN <<g.convex[Head(ns)]>> \o ConvexList(g, Tail(ns))
         ELSE ConvexList(g, Tail(ns))

----------------------------------------------------------------------------
(* treelib Tree *)

TreeNode(parent, convex, ids) == [parent |-> parent, convex |-> convex, plane_ids |-> ids]

Successors(t, n) == {m \in DOMAIN t : t[m].parent = n}

Leaves(t) == {n \in DOMAIN t : Successors(t, n) = {}}

\* filter=lambda x: x.data["plane_ids"].shape[0]
Filter(t, n) == Len(t[n].plane_ids) > 0

\* one step of Tree.expand_tree: the filtered, sorted successors of the node
\* just yielded go in front of the queue (DEPTH) or behind it (WIDTH)
Advance(t, q, m) ==
    LET expansion == SortedSeq({c \in Successors(t, Head(q)) : Filter(t, c)})
    IN IF m = "DEPTH" THEN expansion \o Tail(q) ELSE Tail(q) \o expansion

----------------------------------------------------------------------------
(* Running primitive arrays: ids are 0-based as in the source *)

At(s, id) == s[id + 1]

\* (which_side < 0).all() and (~(which_side < 0)).all()
AllLeft(pl, pts) == \A i \in 1..Len(pts) : WhichSide(pl, pts[i]) < 0

AllRight(pl, pts) == \A i \in 1..Len(pts) : ~(WhichSide(pl, pts[i]) < 0)

\* left and right counters of candidate k of current_ids
LeftCount(ids, k, pls, pgs) ==
    Cardinality({j \in 1..Len(ids) :
        ids[j] # ids[k] /\ AllLeft(At(pls, ids[k]), At(pgs, ids[j]))})

RightCount(ids, k, pls, pgs) ==
    Cardinality({j \in 1..Len(ids) :
        ids[j] # ids[k] /\ AllRight(At(pls, ids[k]), At(pgs, ids[j]))})

Separates(ids, k, pls, pgs) ==
    \/ LeftCount(ids, k, pls, pgs) = Len(ids) - 1
    \/ RightCount(ids, k, pls, pgs) = Len(ids) - 1

Score(ids, k, pls, pgs) == LeftCount(ids, k, pls, pgs) * RightCount(ids, k, pls, pgs)

\* CellComplex._get_best_plane: the position (1-based) in current_ids
GetBestPlane(ids, pls, pgs) ==
    IF \E k \in 1..Len(ids) : Separates(ids, k, pls, pgs)
    THEN CHOOSE k \in 1..Len(ids) :
            /\ Separates(ids, k, pls, pgs)
            /\ \A j \in 1..(k - 1) : ~Separates(ids, j, pls, pgs)
    ELSE CHOOSE k \in 1..Len(ids) :
            /\ \A j \in 1..Len(ids) : Score(ids, j, pls, pgs) <= Score(ids, k, pls, pgs)
            /\ \A j \in 1..(k - 1) : Score(ids, j, pls, pgs) < Score(ids, k, pls, pgs)

\* ordering == "optimal" or not
BestPlaneId(ord, ids, pls, pgs) ==
    IF ord = "optimal" THEN GetBestPlane(ids, pls, pgs) ELSE 1

\* point_groups[id][which_side < 0, :] and point_groups[id][which_side > 0, :]
LeftPoints(pl, pts) == SelectSeq(pts, LAMBDA p : WhichSide(pl, p) < 0)

RightPoints(pl, pts) == SelectSeq(pts, LAMBDA p : WhichSide(pl, p) > 0)

\* the precondition asserted on every examined group
GroupBigEnough(pts, theta) == Len(pts) > theta

\* the group stays whole on the left / on the right
KeepsLeft(pts, lp, theta) == (Len(pts) - Len(lp)) < theta

KeepsRight(pts, rp, theta) == (Len(pts) - Len(rp)) < theta

\* a part cloned as soon as it has theta points
ClonesPartAtLeast(part, theta) == Len(part) >= theta

\* a part of a straddling group is cloned when it has more than theta points
ClonesPart(part, theta) == Len(part) > theta

\* a clone that keeps the split count of its source
ClonedSplitCountSame(psc, id) == At(psc, id)

\* plane_split_count[id] + 1, the split count appended for a clone
ClonedSplitCount(psc, id) == At(psc, id) + 1

\* a clone that takes the first index of the arrays
CloneIdFirst(pls) == 0

\* planes.shape[0], the index a clone gets when it is appended
CloneId(pls) == Len(pls)

\* one iteration of the loop of _split_planes, on primitive id
SplitOne(st, id, best, theta) ==
    LET pts == At(st.point_groups, id)
        lp == LeftPoints(best, pts)
        rp == RightPoints(best, pts)
    IN IF ~GroupBigEnough(pts, theta) THEN [st EXCEPT !.ok = FALSE]
       ELSE IF KeepsLeft(pts, lp, theta)
       THEN [st EXCEPT !.left = Append(@, id),
                       !.point_groups = [@ EXCEPT ![id + 1] = lp]]
       ELSE IF KeepsRight(pts, rp, theta)
       THEN [st EXCEPT !.right = Append(@, id),
                       !.point_groups = [@ EXCEPT ![id + 1] = rp]]
       ELSE LET s1 == IF ClonesPart(lp, theta)
                      THEN [st EXCEPT !.left = Append(@, CloneId(st.planes)),
                                      !.point_groups = Append(@, lp),
                                      !.planes = Append(@, At(st.planes, id)),
                                      !.halfspaces = Append(@, At(st.halfspaces, id)),
                                      !.plane_split_count =
                                          Append(@, ClonedSplitCount(st.plane_split_count, id)),
                                      !.source = Append(@, id)]
                      ELSE st
                s2 == IF ClonesPart(rp, theta)
                      THEN [s1 EXCEPT !.right = Append(@, CloneId(s1.planes)),
                                      !.point_groups = Append(@, rp),
                                      !.planes = Append(@, At(s1.planes, id)),
                                      !.halfspaces = Append(@, At(s1.halfspaces, id)),
                                      !.plane_split_count =
                                          Append(@, ClonedSplitCount(s1.plane_split_count, id)),
                                      !.source = Append(@, id)]
                      ELSE s1
            IN [s2 EXCEPT !.split_count = @ + 1]

RECURSIVE SplitLoop(_, _, _, _, _, _)
SplitLoop(st, ids, k, bestpos, best, theta) ==
    IF k > Len(ids) \/ ~st.ok THEN st
    ELSE IF ids[k] = ids[bestpos] THEN SplitLoop(st, ids, k + 1, bestpos, best, theta)
    ELSE SplitLoop(SplitOne(st, ids[k], best, theta), ids, k + 1, bestpos, best, theta)

\* CellComplex._split_planes; ok is FALSE when the assertion fails; source lists
\* the ids the appended entries were copied from
SplitPlanes(bestpos, ids, pls, psc, hs, pgs, sc, theta) ==
    SplitLoop([left |-> <<>>, right |-> <<>>, planes |-> pls, plane_split_count |-> psc,
               halfspaces |-> hs, point_groups |-> pgs, split_count |-> sc, source |-> <<>>,
               ok |-> TRUE],
              ids, 1, bestpos, At(pls, ids[bestpos]), theta)

----------------------------------------------------------------------------
(* construct_partition *)

EdgeAttr(inter, sp, ci) ==
    [intersection |-> inter, vertices |-> <<>>, supporting_plane |-> sp,
     convex_intersection |-> ci, processed |-> FALSE]

\* a flag that marks every such edge as a convex intersection
MarkedConvexIntersection == TRUE

\* the flag given to every edge between an old neighbour and a new cell
InheritedConvexIntersection == FALSE

\* the two conditional add_edge calls for one old neighbour of the split cell;
\* st = [g, ok]; ok turns FALSE when the source raises (a neighbour without
\* convex, or an unbound neg_cell_count / pos_cell_count)
NeighbourStep(st, nb, old, cneg, cpos, negid, posid) ==
    IF nb \notin DOMAIN st.g.convex THEN [st EXCEPT !.ok = FALSE]
    ELSE LET nconvex == st.g.convex[nb]
             ni == Intersection(nconvex, cneg)
             pi == Intersection(nconvex, cpos)
             n_nonempty == Dim(ni) = 2
             p_nonempty == Dim(pi) = 2
             sp1 == st.g.edge[{nb, old}].supporting_plane
             g1 == IF n_nonempty
                   THEN AddEdge(st.g, nb, negid, EdgeAttr(ni, sp1, InheritedConvexIntersection))
                   ELSE st.g
             sp2 == g1.edge[{nb, old}].supporting_plane
             g2 == IF p_nonempty
                   THEN AddEdge(g1, nb, posid, EdgeAttr(pi, sp2, InheritedConvexIntersection))
                   ELSE g1
         IN IF (n_nonempty /\ negid = Undefined) \/ (p_nonempty /\ posid = Undefined)
            THEN [st EXCEPT !.ok = FALSE]
            ELSE [g |-> g2, ok |-> TRUE]

RECURSIVE NeighbourLoop(_, _, _, _, _, _, _)
NeighbourLoop(st, nbs, old, cneg, cpos, negid, posid) ==
    IF nbs = <<>> \/ ~st.ok THEN st
    ELSE NeighbourLoop(NeighbourStep(st, Head(nbs), old, cneg, cpos, negid, posid),
                       Tail(nbs), old, cneg, cpos, negid, posid)

\* a child cell becomes a tree node and a graph node only when it is 3-dimensional
KeepChild(c) == Dim(c) = 3

\* the part of the loop body after _split_planes has returned sp
ExpandWith(child, best_id, best_plane, sp) ==
    LET current_cell == tree[child].convex
        hspace_positive == At(sp.halfspaces, best_id)[1]
        hspace_negative == At(sp.halfspaces, best_id)[2]
        cell_negative == Intersection(current_cell, hspace_negative)
        cell_positive == Intersection(current_cell, hspace_positive)
        keepneg == KeepChild(cell_negative)
        keeppos == KeepChild(cell_positive)
        cc1 == IF keepneg THEN cell_count + 1 ELSE cell_count
        negid == IF keepneg THEN cc1 ELSE neg_cell_count
        cc2 == IF keeppos THEN cc1 + 1 ELSE cc1
        posid == IF keeppos THEN cc2 ELSE pos_cell_count
        t1 == IF keepneg
              THEN tree @@ (cc1 :> TreeNode(child, cell_negative, sp.left))
              ELSE tree
        t2 == IF keeppos
              THEN t1 @@ (cc2 :> TreeNode(child, cell_positive, sp.right))
              ELSE t1
        g1 == IF keepneg THEN AddNode(graph, negid, cell_negative) ELSE graph
        g2 == IF keeppos THEN AddNode(g1, posid, cell_positive) ELSE g1
        g3 == IF keeppos /\ keepneg
              THEN AddEdge(g2, cc2 - 1, cc2,
                           EdgeAttr(Intersection(cell_negative, cell_positive), best_plane, TRUE))
              ELSE g2
        nl == NeighbourLoop([g |-> g3, ok |-> TRUE], graph.adj[child], child,
                            cell_negative, cell_positive, negid, posid)
    IN Bind(nl, LAMBDA r :
            [ok |-> sp.ok /\ r.ok, sp |-> sp, tree |-> t2, graph |-> RemoveNode(r.g, child),
             cell_count |-> cc2, negid |-> negid, posid |-> posid])

\* the body of the loop over tree.expand_tree for the node child
ExpandBody(child) ==
    LET current_ids == tree[child].plane_ids
        bestpos == BestPlaneId(ordering, current_ids, planes, point_groups)
        best_id == current_ids[bestpos]
    IN Bind(SplitPlanes(bestpos, current_ids, planes, plane_split_count, halfspaces,
                        point_groups, split_count, th),
            LAMBDA sp : ExpandWith(child, best_id, At(planes, best_id), sp))

Expand ==
    /\ pc = "partition"
    /\ queue # <<>>
    /\ \E r \in {ExpandBody(Head(queue))} :
          IF r.ok
          THEN /\ planes' = r.sp.planes
               /\ halfspaces' = r.sp.halfspaces
               /\ point_groups' = r.sp.point_groups
               /\ plane_split_count' = r.sp.plane_split_count
               /\ clone_of' = clone_of \o r.sp.source
               /\ split_count' = r.sp.split_count
               /\ cell_count' = r.cell_count
               /\ neg_cell_count' = r.negid
               /\ pos_cell_count' = r.posid
               /\ tree' = r.tree
               /\ graph' = r.graph
               /\ queue' = Advance(r.tree, queue, mode)
               /\ pc' = "partition"
               /\ UNCHANGED <<callVars, inputVars, labels, cells, postVars>>
          ELSE /\ pc' = "partition_raised"
               /\ UNCHANGED <<callVars, inputVars, labels, partVars, tree, queue, graph, cells,
                              postVars>>

\* the statements after the loop: self.graph, self.tree, self.cells
FinishPartition ==
    /\ pc = "partition"
    /\ queue = <<>>
    /\ cells' = ConvexList(graph, graph.nodes)
    /\ pc' = "constructed"
    /\ UNCHANGED <<callVars, inputVars, labels, partVars, tree, queue, graph, postVars>>

RECURSIVE IdSeq(_)
\* np.arange(n)
IdSeq(n) == IF n = 0 THEN <<>> ELSE Append(IdSeq(n - 1), n - 1)

ValidInput(inp, theta) == \A i \in 1..Len(inp) : Len(inp[i].points) > theta

Init ==
    \E sc \in Scenes, theta \in 1..MaxTheta :
      LET inp == sc.prims IN
        /\ ValidInput(inp, theta)
        /\ bounding_poly = sc.box
        /\ points = [i \in 1..Len(inp) |-> inp[i].points]
        /\ bounds = [i \in 1..Len(inp) |-> PointsBound(inp[i].points)]
        /\ additional_planes = <<>>
        /\ prio_mode = "none"
        /\ exhaustive = FALSE
        /\ num_workers = 0
        /\ index_node = 0
        /\ prim_i = 0
        /\ th = theta
        /\ mode \in {"DEPTH", "WIDTH"}
        /\ ordering \in {"optimal", "input"}
        /\ planes = [i \in 1..Len(inp) |-> inp[i].plane]
        /\ halfspaces = [i \in 1..Len(inp) |-> Halfspaces(inp[i].plane)]
        /\ point_groups = [i \in 1..Len(inp) |-> inp[i].points]
        /\ plane_split_count = [i \in 1..Len(inp) |-> 0]
        /\ clone_of = [i \in 1..Len(inp) |-> Undefined]
        /\ split_count = 0
        /\ cell_count = 0
        /\ neg_cell_count = Undefined
        /\ pos_cell_count = Undefined
        /\ tree = (0 :> TreeNode(Undefined, sc.box, IdSeq(Len(inp))))
        /\ queue = IF Len(inp) > 0 THEN <<0>> ELSE <<>>
        /\ graph = AddNode(EmptyGraph, 0, sc.box)
        /\ cells = <<>>
        /\ labels = <<>>
        /\ edges = <<>>
        /\ deleted_nodes = {}
        /\ poly_calls = 0
        /\ mesh = <<>>
        /\ polygon = <<>>
        /\ outside = <<>>
        /\ orientation = <<>>
        /\ reference = <<>>
        /\ pc = "partition"

----------------------------------------------------------------------------
(* label_cells *)

\* what the labeler returns for a cell, in quarters: 0.25 or 0.75
LabelerValues == {1, 3}

\* np.rint of q / 4 (halves go to the even integer)
Rint(q) == IF q <= 2 THEN 0 ELSE 1

\* dict(zip(self.graph.nodes, np.rint(occs).astype(int))) set as "occupancy"
ZipOccupancy(g, occs) ==
    LET n == Min(Len(g.nodes), Len(occs))
    IN [g EXCEPT !.occ = [x \in {g.nodes[k] : k \in 1..n} |->
                            Rint(occs[CHOOSE k \in 1..n : g.nodes[k] = x])]]

\* nx.set_node_attributes(self.graph, occs, "float_occupancy"): occs is the array
\* the labeler returned, not a dict, so every node receives the whole array
SetFloatOccupancy(g, occs) ==
    [g EXCEPT !.float_occupancy = [x \in NodeSet(g) |-> occs]]

LabelCells ==
    /\ pc = "constructed"
    /\ \E occs \in [1..Len(cells) -> LabelerValues] :
          /\ labels' = occs
          /\ graph' = ZipOccupancy(SetFloatOccupancy(graph, occs), occs)
    /\ pc' = "labeled"
    /\ UNCHANGED <<callVars, inputVars, partVars, tree, queue, cells, postVars>>

----------------------------------------------------------------------------
(* _init_polygons and construct_polygons *)

RECURSIVE SortPoints(_)
\* the points of a finite set in lexicographic order
SortPoints(S) ==
    IF S = {} THEN <<>>
    ELSE LET m == CHOOSE p \in S : \A q \in S :
                     \/ p[1] < q[1]
                     \/ (p[1] = q[1] /\ p[2] < q[2])
                     \/ (p[1] = q[1] /\ p[2] = q[2] /\ p[3] <= q[3])
         IN <<m>> \o SortPoints(S \ {m})

\* Polyhedron.vertices_list()
VerticesList(p) == SortPoints(Vertices(p))

HasOcc(g, n) == n \in DOMAIN g.occ

HasConvex(g, n) == n \in DOMAIN g.convex

\* every edge gets intersection = c0 /\ c1 and vertices = []; ok is FALSE when
\* an endpoint has no convex
InitPolygons(g) ==
    IF \E e \in DOMAIN g.edge : \E n \in e : ~HasConvex(g, n)
    THEN [g |-> g, ok |-> FALSE]
    ELSE [g |-> [g EXCEPT !.edge = [e \in DOMAIN g.edge |->
                    LET a == CHOOSE n \in e : TRUE
                        b == CHOOSE n \in e : e = {a, n}
                    IN [g.edge[e] EXCEPT
                           !.intersection = Intersection(g.convex[a], g.convex[b]),
                           !.vertices = <<>>]]],
          ok |-> TRUE]

\* the vertices a neighbouring facet contributes to the current facet
FacetContribution(current_facet, this_facet) ==
    LET fi == Intersection(current_facet, this_facet)
    IN IF Dim(fi) = 0 \/ Dim(fi) = 1 THEN VerticesList(fi) ELSE <<>>

\* one pass over list(self.graph[c]) for the boundary edge {c, other}
RECURSIVE PolyNeighbours(_, _, _, _)
PolyNeighbours(g, nbs, c, other) ==
    IF nbs = <<>> THEN g
    ELSE IF Head(nbs) = other THEN PolyNeighbours(g, Tail(nbs), c, other)
    ELSE LET cur == {c, other}
             this == {c, Head(nbs)}
             add == FacetContribution(g.edge[cur].intersection, g.edge[this].intersection)
             g1 == [g EXCEPT !.edge[cur].vertices = @ \o add]
             g2 == [g1 EXCEPT !.edge[this].vertices = @ \o add]
         IN PolyNeighbours(g2, Tail(nbs), c, other)

\* the loop of construct_polygons over list(self.graph.edges)
RECURSIVE PolyEdges(_, _)
PolyEdges(st, es) ==
    IF es = <<>> \/ ~st.ok THEN st
    ELSE LET c0 == Head(es)[1]
             c1 == Head(es)[2]
         IN IF ~HasOcc(st.g, c0) \/ ~HasOcc(st.g, c1) THEN [st EXCEPT !.ok = FALSE]
            ELSE IF st.g.occ[c0] # st.g.occ[c1]
            THEN PolyEdges([g |-> PolyNeighbours(PolyNeighbours(st.g, st.g.adj[c0], c0, c1),
                                                 st.g.adj[c1], c1, c0),
                            ok |-> TRUE], Tail(es))
            ELSE PolyEdges(st, Tail(es))

ConstructPolygonsOn(g) == PolyEdges([g |-> g, ok |-> TRUE], EdgeList(g))

MaxPolyCalls == 2

ConstructPolygons ==
    /\ pc \in {"labeled", "simplified", "collapsed", "polygons"}
    /\ poly_calls < MaxPolyCalls
    /\ \E r \in {ConstructPolygonsOn(graph)} :
          IF r.ok
          THEN /\ graph' = r.g
               /\ poly_calls' = poly_calls + 1
               /\ pc' = "polygons"
          ELSE /\ pc' = "raised"
               /\ UNCHANGED <<graph, poly_calls>>
    /\ UNCHANGED <<callVars, inputVars, labels, partVars, tree, queue, cells, edges,
                   deleted_nodes, mesh>>

----------------------------------------------------------------------------
(* simplify and collapse_convex_intersections *)

\* a faulty filter that merges occupied cells only
ToProcessOccupied(g, n0, n1) ==
    g.occ[n0] = 1 /\ g.occ[n1] = 1 /\ g.edge[{n0, n1}].convex_intersection

\* filter_edge of simplify
ToProcess(g, n0, n1) ==
    g.occ[n0] = g.occ[n1] /\ g.edge[{n0, n1}].convex_intersection

\* list(nx.subgraph_view(self.graph, filter_edge=filter_edge).edges)
QualifyingEdges(g) == SelectSeq(EdgeList(g), LAMBDA e : ToProcess(g, e[1], e[2]))

AllLabelled(g) == \A e \in DOMAIN g.edge : \A n \in e : HasOcc(g, n)

\* re-attach the edges of v to u, in the order of adj[v]
RECURSIVE Remap(_, _, _, _, _)
Remap(h, u, v, nbs, old) ==
    IF nbs = <<>> THEN h
    ELSE LET w == Head(nbs)
             x == IF w = v THEN u ELSE w
         IN IF w = u THEN Remap(h, u, v, Tail(nbs), old)
            ELSE IF HasEdge(h, u, x) THEN Remap(h, u, v, Tail(nbs), old)
            ELSE Remap(AddEdge(h, u, x, old.edge[{v, w}]), u, v, Tail(nbs), old)

\* nx.contracted_edge(self.graph, (u, v), self_loops=False, copy=False)
ContractedEdge(g, u, v) == Remap(RemoveNode(g, v), u, v, g.adj[v], g)

RECURSIVE Subtree(_, _)
Subtree(t, n) == {n} \cup UNION {Subtree(t, m) : m \in Successors(t, n)}

\* Tree.remove_node: the node with all its successors
TreeRemove(t, n) == Restrict(t, (DOMAIN t) \ Subtree(t, n))

\* Tree.siblings
Siblings(t, n) == {m \in DOMAIN t : m # n /\ t[m].parent = t[n].parent}

\* the body of simplify for one edge (c0, c1); ok is FALSE where the source raises
SimplifyContract(g, t, c0, c1) ==
    LET g1 == ContractedEdge(g, c0, c1)
        parent == t[c0].parent
        pp_id == t[parent].parent
        g2 == [g1 EXCEPT !.convex[c0] = t[parent].convex]
        t1 == TreeRemove(t, parent)
        t2 == t1 @@ (c0 :> TreeNode(pp_id, t[parent].convex, t[parent].plane_ids))
        sibs == Siblings(t2, c0)
        sibling == CHOOSE m \in sibs : TRUE
        g3 == IF Successors(t2, sibling) = {}
              THEN [g2 EXCEPT !.edge[{c0, sibling}].convex_intersection = TRUE,
                              !.edge[{c0, sibling}].processed = FALSE]
              ELSE g2
    IN IF c0 \notin DOMAIN t \/ parent = Undefined \/ pp_id = Undefined
       THEN [ok |-> FALSE, g |-> g, t |-> t]
       ELSE IF sibs = {} THEN [ok |-> FALSE, g |-> g, t |-> t]
       ELSE IF Successors(t2, sibling) = {} /\ ~HasEdge(g2, c0, sibling)
       THEN [ok |-> FALSE, g |-> g, t |-> t]
       ELSE [ok |-> TRUE, g |-> g3, t |-> t2]

SimplifyStart ==
    /\ pc = "labeled"
    /\ IF AllLabelled(graph)
       THEN /\ edges' = QualifyingEdges(graph)
            /\ pc' = "simplify"
       ELSE /\ pc' = "raised"
            /\ UNCHANGED edges
    /\ deleted_nodes' = {}
    /\ UNCHANGED <<callVars, inputVars, labels, partVars, tree, queue, graph, cells, poly_calls, mesh>>

\* one iteration of the for loop; after the last edge of a pass the list is recomputed
SimplifyStep ==
    /\ pc = "simplify"
    /\ edges # <<>>
    /\ LET c0 == Head(edges)[1]
           c1 == Head(edges)[2]
       IN IF c0 \in deleted_nodes \/ c1 \in deleted_nodes
          THEN /\ edges' = IF Tail(edges) = <<>> THEN QualifyingEdges(graph) ELSE Tail(edges)
               /\ UNCHANGED <<graph, tree, deleted_nodes, pc>>
          ELSE \E r \in {SimplifyContract(graph, tree, c0, c1)} :
                  IF r.ok
                  THEN /\ graph' = r.g
                       /\ tree' = r.t
                       /\ deleted_nodes' = deleted_nodes \cup {c1}
                       /\ edges' = IF Tail(edges) = <<>> THEN QualifyingEdges(r.g)
                                   ELSE Tail(edges)
                       /\ pc' = "simplify"
                  ELSE /\ pc' = "raised"
                       /\ UNCHANGED <<graph, tree, deleted_nodes, edges>>
    /\ UNCHANGED <<callVars, inputVars, labels, partVars, queue, cells, poly_calls, mesh>>

\* after the while loop: self.cells and _init_polygons
SimplifyFinish ==
    /\ pc = "simplify"
    /\ edges = <<>>
    /\ \E r \in {InitPolygons(graph)} :
          IF r.ok
          THEN /\ graph' = r.g
               /\ cells' = ConvexList(graph, graph.nodes)
               /\ pc' = "simplified"
          ELSE /\ pc' = "raised"
               /\ UNCHANGED <<graph, cells>>
    /\ UNCHANGED <<callVars, inputVars, labels, partVars, tree, queue, edges, deleted_nodes,
                   poly_calls, mesh>>

\* the loop of collapse_convex_intersections over list(self.graph.edges)
RECURSIVE CollapseLoop(_, _)
CollapseLoop(st, es) ==
    IF es = <<>> \/ ~st.ok THEN st
    ELSE LET c0 == Head(es)[1]
             c1 == Head(es)[2]
         IN IF c0 \in st.deleted \/ c1 \in st.deleted THEN CollapseLoop(st, Tail(es))
            ELSE IF ~HasOcc(st.g, c0) \/ ~HasOcc(st.g, c1) THEN [st EXCEPT !.ok = FALSE]
            ELSE IF st.g.occ[c0] = st.g.occ[c1] /\ st.g.edge[{c0, c1}].convex_intersection
            THEN LET g1 == ContractedEdge(st.g, c0, c1)
                     g2 == [g1 EXCEPT !.convex[c0] =
                                ConvexHull(st.g.convex[c0], st.g.convex[c1])]
                 IN CollapseLoop([g |-> g2, deleted |-> st.deleted \cup {c1}, ok |-> TRUE],
                                 Tail(es))
            ELSE CollapseLoop(st, Tail(es))

CollapseConvexIntersections ==
    /\ pc = "labeled"
    /\ \E r \in {CollapseLoop([g |-> graph, deleted |-> {}, ok |-> TRUE], EdgeList(graph))} :
       \E ip \in {InitPolygons(r.g)} :
          IF r.ok /\ ip.ok
          THEN /\ graph' = ip.g
               /\ cells' = ConvexList(r.g, r.g.nodes)
               /\ pc' = "collapsed"
          ELSE /\ pc' = "raised"
               /\ UNCHANGED <<graph, cells>>
    /\ UNCHANGED <<callVars, inputVars, labels, partVars, tree, queue, edges, deleted_nodes,
                   poly_calls, mesh>>

----------------------------------------------------------------------------
(* Surface extraction *)

Dot(u, v) == u[1] * v[1] + u[2] * v[2] + u[3] * v[3]

Cross(u, v) ==
    <<u[2] * v[3] - u[3] * v[2], u[3] * v[1] - u[1] * v[3], u[1] * v[2] - u[2] * v[1]>>

Sub(u, v) == <<u[1] - v[1], u[2] - v[2], u[3] - v[3]>>

Abs(x) == IF x < 0 THEN -x ELSE x

Twice(p) == <<2 * p[1], 2 * p[2], 2 * p[3]>>

\* _get_intersection: the corner list of the facet of edge (e0, e1); the
\* "vertices" attribute is always present, so only the first branch is taken
GetIntersection(g, e0, e1) == SortPoints(Range(g.edge[{e0, e1}].vertices))

\* _project_points_to_plane for a plane with a unit axis-aligned normal:
\* the coordinates of the point in the basis (e1, e2)
ProjectPoint(p, pl) ==
    LET n == <<pl[1], pl[2], pl[3]>>
        z == CHOOSE k \in Axes : \A j \in Axes :
                 Abs(n[k]) > Abs(n[j]) \/ (Abs(n[k]) = Abs(n[j]) /\ k <= j)
        y == (z % 3) + 1
        x == (y % 3) + 1
        e1 == [k \in Axes |-> IF k = x THEN n[x] ELSE IF k = y THEN -n[z] ELSE n[y]]
        e2 == Cross(n, e1)
        k0 == -pl[4] - Dot(n, p)
        pp == <<p[1] + k0 * n[1], p[2] + k0 * n[2], p[3] + k0 * n[3]>>
    IN <<Dot(e1, pp), Dot(e2, pp)>>

\* the position of arctan2(v[2], v[1]) in (-pi, pi]: below the axis, 0, above, pi
AngleClass(v) ==
    IF v[2] < 0 THEN 1
    ELSE IF v[2] = 0 /\ v[1] >= 0 THEN 2
    ELSE IF v[2] > 0 THEN 3
    ELSE 4

SameAngle(u, v) == AngleClass(u) = AngleClass(v) /\ u[1] * v[2] - u[2] * v[1] = 0

AngleLess(u, v) ==
    \/ AngleClass(u) < AngleClass(v)
    \/ (AngleClass(u) = AngleClass(v) /\ u[1] * v[2] - u[2] * v[1] > 0)

\* pp - center, scaled by the number of points to stay integral
CentredWith(pp, sums) ==
    [i \in 1..Len(pp) |-> <<Len(pp) * pp[i][1] - sums[1], Len(pp) * pp[i][2] - sums[2]>>]

\* the vectors from the centre of the projected points
CentredVectors(pts, pl) ==
    Bind([i \in 1..Len(pts) |-> ProjectPoint(pts[i], pl)],
         LAMBDA pp : Bind(<<SeqSum([i \in 1..Len(pp) |-> pp[i][1]]),
                            SeqSum([i \in 1..Len(pp) |-> pp[i][2]])>>,
                          LAMBDA sums : CentredWith(pp, sums)))

\* np.argsort of the angles, applied to the points
ArgSorted(pts, v) ==
    [r \in 1..Len(pts) |->
        pts[CHOOSE i \in 1..Len(pts) :
                Cardinality({j \in 1..Len(pts) : AngleLess(v[j], v[i])}) = r - 1]]

\* two of the angles are equal: np.unique(radians) is shorter than radians
RepeatedAngle(v) == \E i, j \in 1..Len(v) : i # j /\ SameAngle(v[i], v[j])

\* radians[np.unique(radians, return_counts=True)[1] > 1]: the mask has one entry
\* per distinct angle; when an angle is repeated it is shorter than radians and
\* the indexing raises IndexError, so the warning and "return None" are never
\* reached; raised tells an exception from a returned None
SortWith(pts, v) ==
    IF RepeatedAngle(v)
    THEN [ok |-> FALSE, raised |-> TRUE, pts |-> <<>>]
    ELSE [ok |-> TRUE, raised |-> FALSE, pts |-> ArgSorted(pts, v)]

\* _sort_vertex_indices_by_angle: the corners in ascending angle; ok is FALSE
\* when no ordering is returned: two angles are equal, or there is no point
\* (points[:, 0] raises on an empty array)
SortByAngle(pts, pl) ==
    IF pts = <<>> THEN [ok |-> FALSE, raised |-> TRUE, pts |-> <<>>]
    ELSE Bind(CentredVectors(pts, pl), LAMBDA v : SortWith(pts, v))

\* the loop of _orient_exact_polygon: the first index (0-based) whose cross
\* product has a nonzero component sum, or Undefined when the index runs out
RECURSIVE OrientIndex(_, _)
OrientIndex(pts, i) ==
    IF i + 3 > Len(pts) THEN Undefined
    ELSE LET c == Cross(Sub(pts[i + 2], pts[i + 1]), Sub(pts[i + 3], pts[i + 1]))
         IN IF c[1] + c[2] + c[3] = 0 THEN OrientIndex(pts, i + 1) ELSE i

\* a helper that answers TRUE when the dot product is positive
OrientExactPolygonPositive(pts, outside2) ==
    LET k == OrientIndex(pts, 0)
        cross == Cross(Sub(pts[k + 2], pts[k + 1]), Sub(pts[k + 3], pts[k + 1]))
        i == k + 1
        c == Sub(outside2, <<2 * pts[i + 1][1], 2 * pts[i + 1][2], 2 * pts[i + 1][3]>>)
    IN Dot(cross, c) > 0

\* _orient_exact_polygon(points, outside), with outside2 = 2 * outside
OrientExactPolygon(pts, outside2) ==
    LET k == OrientIndex(pts, 0)
        cross == Cross(Sub(pts[k + 2], pts[k + 1]), Sub(pts[k + 3], pts[k + 1]))
        i == k + 1
        c == Sub(outside2, <<2 * pts[i + 1][1], 2 * pts[i + 1][2], 2 * pts[i + 1][3]>>)
    IN Dot(cross, c) < 0

\* _orient_inexact_polygon: the same test on normalised floats
OrientInexactPolygon(pts, outside2) == OrientExactPolygon(pts, outside2)

Reverse(s) == [i \in 1..Len(s) |-> s[Len(s) + 1 - i]]

\* the oriented facet, from the corners in angular order
OrientedFacet(g, e0, e1, exact, out, sorted) ==
    IF Len(sorted) < 3 THEN [ok |-> ~exact, skip |-> TRUE]
    ELSE IF ~HasConvex(g, out) \/ OrientIndex(sorted, 0) = Undefined
    THEN [ok |-> FALSE, skip |-> FALSE]
    ELSE LET flip == IF exact THEN OrientExactPolygon(sorted, Center2(g.convex[out]))
                     ELSE OrientInexactPolygon(sorted, Center2(g.convex[out]))
         IN [ok |-> TRUE, skip |-> FALSE,
             facet |-> [points |-> IF flip THEN Reverse(sorted) ELSE sorted,
                        inside |-> IF out = e0 THEN e1 ELSE e0,
                        outside |-> out]]

SortedFacet(g, e0, e1, exact, srt) ==
    IF ~srt.ok THEN [ok |-> FALSE, skip |-> FALSE]
    ELSE OrientedFacet(g, e0, e1, exact, IF g.occ[e1] # 0 THEN e0 ELSE e1, srt.pts)

\* the facet emitted for the boundary edge (e0, e1); ok is FALSE where the
\* source raises or exits; skip is TRUE when extract_soup passes over the facet
Facet(g, e0, e1, exact) ==
    Bind(SortByAngle(GetIntersection(g, e0, e1), g.edge[{e0, e1}].supporting_plane),
         LAMBDA srt : SortedFacet(g, e0, e1, exact, srt))

ExtractAppend(st, f) ==
    IF ~f.ok THEN [st EXCEPT !.ok = FALSE]
    ELSE IF f.skip THEN st
    ELSE [st EXCEPT !.facets = Append(@, f.facet)]

\* the loop of extract_surface / extract_soup over self.graph.edges
RECURSIVE ExtractLoop(_, _, _, _)
ExtractLoop(st, g, es, exact) ==
    IF es = <<>> \/ ~st.ok THEN st
    ELSE LET e0 == Head(es)[1]
             e1 == Head(es)[2]
         IN IF ~HasOcc(g, e0) \/ ~HasOcc(g, e1) THEN [st EXCEPT !.ok = FALSE]
            ELSE IF g.occ[e0] = g.occ[e1] THEN ExtractLoop(st, g, Tail(es), exact)
            ELSE ExtractLoop(Bind(Facet(g, e0, e1, exact), LAMBDA f : ExtractAppend(st, f)),
                             g, Tail(es), exact)

Extract(g, exact) == ExtractLoop([facets |-> <<>>, ok |-> TRUE], g, EdgeList(g), exact)

ExtractSurface ==
    /\ pc = "polygons"
    /\ \E r \in {Extract(graph, TRUE)} :
          IF r.ok THEN mesh' = r.facets /\ pc' = "surface"
          ELSE pc' = "raised" /\ UNCHANGED mesh
    /\ UNCHANGED <<callVars, inputVars, labels, partVars, tree, queue, graph, cells, edges,
                   deleted_nodes, poly_calls>>

ExtractSoup ==
    /\ pc = "polygons"
    /\ \E r \in {Extract(graph, FALSE)} :
          IF r.ok THEN mesh' = r.facets /\ pc' = "soup"
          ELSE pc' = "raised" /\ UNCHANGED mesh
    /\ UNCHANGED <<callVars, inputVars, labels, partVars, tree, queue, graph, cells, edges,
                   deleted_nodes, poly_calls>>

Next ==
    \/ Expand
    \/ FinishPartition
    \/ LabelCells
    \/ ConstructPolygons
    \/ SimplifyStart
    \/ SimplifyStep
    \/ SimplifyFinish
    \/ CollapseConvexIntersections
    \/ ExtractSurface
    \/ ExtractSoup

Spec == Init /\ [][Next]_vars

----------------------------------------------------------------------------
(* prioritise_planes *)

Inf == Far + Far

\* the bound given to an additional plane: -inf and +inf in every direction
InfiniteBound == [lo |-> <<-Inf, -Inf, -Inf>>, hi |-> <<Inf, Inf, Inf>>]

\* _vertical_planes: (a^2 + b^2) / (c^2 + 1e-4) > 0.9^2, in integers
IsVertical(pl) ==
    (pl[1] * pl[1] + pl[2] * pl[2]) * 1000000 > 81 * (pl[3] * pl[3] * 10000 + 1)

\* np.where(...)[0]: the 0-based indices of the vertical planes
VerticalPlanes(pls) == {i - 1 : i \in {j \in 1..Len(pls) : IsVertical(pls[j])}}

Extent(b) == [k \in Axes |-> b.hi[k] - b.lo[k]]

\* the key of _sort_planes('volume'): the product of the extents
VolumeKey(b) == Extent(b)[1] * Extent(b)[2] * Extent(b)[3]

\* the key of _sort_planes('norm'): the L2 norm of the extents, squared
NormKey(b) == Dot(Extent(b), Extent(b))

\* np.argsort(keys)[::-1]: ascending with ties in input order, then reversed
ArgsortReversed(keys) ==
    [r \in 1..Len(keys) |->
        (CHOOSE i \in 1..Len(keys) :
            Cardinality({j \in 1..Len(keys) :
                keys[j] > keys[i] \/ (keys[j] = keys[i] /\ j > i)}) = r - 1) - 1]

\* _sort_planes(mode): ok is FALSE when it raises ValueError
SortPlanes(m, bnds) ==
    IF m = "volume"
    THEN [ok |-> TRUE, indices |-> ArgsortReversed([i \in 1..Len(bnds) |-> VolumeKey(bnds[i])])]
    ELSE IF m = "norm"
    THEN [ok |-> TRUE, indices |-> ArgsortReversed([i \in 1..Len(bnds) |-> NormKey(bnds[i])])]
    ELSE [ok |-> FALSE, indices |-> <<>>]

\* np.random.shuffle: any permutation of 0 .. n - 1
Shuffles(n) == {idx \in [1..n -> 0..(n - 1)] : Range(idx) = 0..(n - 1)}

\* array[indices]
Take(s, indices) == [r \in 1..Len(indices) |-> s[indices[r] + 1]]

\* the branches of prioritise_planes that compute indices_sorted_planes and
\* indices_priority; assigned is FALSE when indices_priority is left unbound,
\* so that the statement that uses it raises UnboundLocalError
PriorityIndices(m, pls, bnds) ==
    LET arange == IdSeq(Len(pls)) IN
    IF m = "random"
    THEN {[assigned |-> TRUE, indices_sorted_planes |-> p, indices_priority |-> p] :
            p \in Shuffles(Len(pls))}
    ELSE IF m = "vertical"
    THEN {[assigned |-> TRUE, indices_sorted_planes |-> arange,
           indices_priority |-> SelectIds(arange, VerticalPlanes(pls))
                                  \o SelectIds(arange, Range(arange) \ VerticalPlanes(pls))]}
    ELSE {[assigned |-> FALSE, indices_sorted_planes |-> SortPlanes(m, bnds).indices,
           indices_priority |-> <<>>]}

PrioModes == {"random", "vertical", "norm", "volume"}

PrioritisePlanes ==
    /\ pc = "init"
    /\ \E m \in PrioModes :
          /\ prio_mode' = m
          /\ \E r \in PriorityIndices(m, planes, bounds) :
                IF r.assigned
                THEN /\ planes' = additional_planes \o Take(planes, r.indices_priority)
                     /\ bounds' = [i \in 1..Len(additional_planes) |-> InfiniteBound]
                                    \o Take(bounds, r.indices_priority)
                     /\ points' = Take(points, r.indices_priority)
                     /\ pc' = "prioritised"
                ELSE /\ pc' = "prioritise_raised"
                     /\ UNCHANGED <<planes, bounds, points>>
    /\ UNCHANGED <<bounding_poly, additional_planes, exhaustive, num_workers, index_node,
                   prim_i, th, mode, ordering, halfspaces, point_groups, plane_split_count,
                   clone_of, split_count, cell_count, neg_cell_count, pos_cell_count, tree,
                   queue, graph, cells, labels, postVars, callVars>>

----------------------------------------------------------------------------
(* construct_abspy *)

MaxWorkers == 1

\* the AABB test of _intersect_bound_plane, on doubled centres; the tolerance
\* of 1e-4 turns < into <= on integers
BoundsOverlap(b, c) ==
    \A k \in Axes :
        Abs((b.lo[k] + b.hi[k]) - (c.lo[k] + c.hi[k])) <= Extent(b)[k] + Extent(c)[k]

\* the plane-AABB test of _intersect_bound_plane, doubled
PlaneMeetsBound(pl, c) ==
    Abs(Dot(<<pl[1], pl[2], pl[3]>>, Center2(c)) + 2 * pl[4])
        <= Dot(<<Abs(pl[1]), Abs(pl[2]), Abs(pl[3])>>, Extent(c))

\* _intersect_bound_plane: the 0-based indices of the candidate cells; the
\* bounding box of a box is the box itself, so cells stands for cells_bounds
IntersectBoundPlane(clls, bound, pl, exh) ==
    IF exh THEN IdSeq(Len(clls))
    ELSE SelectIds(IdSeq(Len(clls)),
                   {i \in 0..(Len(clls) - 1) :
                       /\ bound.lo[1] = -Inf \/ BoundsOverlap(bound, At(clls, i))
                       /\ PlaneMeetsBound(pl, At(clls, i))})

\* _index_node_to_cell
IndexNodeToCell(g, n) == (CHOOSE k \in 1..Len(g.nodes) : g.nodes[k] = n) - 1

SupportingPlane(pl) == [supporting_plane |-> pl]

\* a faulty test that attaches every former neighbour to both children
IntersectNeighbourBoth(g, n, cell_positive, cell_negative, cell_neighbour, sp, idx) ==
    AddEdge(AddEdge(g, idx + 1, n, SupportingPlane(sp)), idx + 2, n, SupportingPlane(sp))

\* _intersect_neighbour, on the graph g
IntersectNeighbour(g, n, cell_positive, cell_negative, cell_neighbour, sp, idx) ==
    IF Dim(Intersection(cell_positive, cell_neighbour)) = 2
    THEN LET g1 == AddEdge(g, idx + 1, n, SupportingPlane(sp))
         IN IF Dim(Intersection(cell_negative, cell_neighbour)) = 2
            THEN AddEdge(g1, idx + 2, n, SupportingPlane(sp))
            ELSE g1
    ELSE AddEdge(g, idx + 2, n, SupportingPlane(sp))

RECURSIVE IntersectNeighbours(_, _, _, _, _, _, _)
\* for k in kwargs: self._intersect_neighbour(k)
IntersectNeighbours(g, nbs, parent, clls, cell_positive, cell_negative, idx) ==
    IF nbs = <<>> THEN g
    ELSE LET n == Head(nbs)
             g1 == IntersectNeighbour(g, n, cell_positive, cell_negative,
                                      At(clls, IndexNodeToCell(g, n)),
                                      g.edge[{parent, n}].supporting_plane, idx)
         IN IntersectNeighbours(g1, Tail(nbs), parent, clls, cell_positive, cell_negative, idx)

\* pool.map(self._intersect_neighbour, kwargs): every task runs in a worker
\* process on a pickled copy of the complex, so the edges it adds are added to
\* the copy and the graph of the host stays as it is
PoolMap(g, nbs, parent, clls, cell_positive, cell_negative, idx) == g

\* the body of the loop over indices_cells; st = [g, cells, index_node, parents, ok]
SplitCell(st, index_cell, pl, workers) ==
    LET cell == At(st.cells, index_cell)
        cell_positive == Intersection(Halfspaces(pl)[1], cell)
        cell_negative == Intersection(Halfspaces(pl)[2], cell)
        parent == At(st.g.nodes, index_cell)
        idx == st.index_node
        g1 == AddNode(st.g, idx + 1, cell_positive)
        g2 == AddNode(g1, idx + 2, cell_negative)
        g3 == AddEdge(g2, idx + 1, idx + 2, SupportingPlane(pl))
        neighbours == g3.adj[parent]
        g4 == IF workers = 0
              THEN IntersectNeighbours(g3, neighbours, parent, st.cells, cell_positive,
                                       cell_negative, idx)
              ELSE PoolMap(g3, neighbours, parent, st.cells, cell_positive, cell_negative, idx)
    IN IF Dim(cell_positive) # 3 \/ Dim(cell_negative) # 3 THEN st
       ELSE [st EXCEPT !.g = g4, !.cells = @ \o <<cell_positive, cell_negative>>,
                       !.index_node = idx + 2, !.parents = Append(@, index_cell)]

RECURSIVE SplitCells(_, _, _, _)
SplitCells(st, indices_cells, pl, workers) ==
    IF indices_cells = <<>> THEN st
    ELSE SplitCells(SplitCell(st, Head(indices_cells), pl, workers), Tail(indices_cells),
                    pl, workers)

\* del self.cells[index_parent]
DeleteAt(s, i) == [k \in 1..(Len(s) - 1) |-> IF k <= i THEN s[k] ELSE s[k + 1]]

RECURSIVE DeleteParents(_, _)
\* the parents leave self.cells and the graph, the largest index first
DeleteParents(st, parents) ==
    IF parents = <<>> THEN st
    ELSE LET p == parents[Len(parents)]
         IN DeleteParents([st EXCEPT !.cells = DeleteAt(@, p),
                                     !.g = RemoveNode(@, At(st.g.nodes, p))],
                          SubSeq(parents, 1, Len(parents) - 1))

\* one iteration of the loop over the primitives; ok is FALSE when the
\* assertion on indices_cells fails
PrimitiveStep(st, pl, bound, exh, workers) ==
    LET indices_cells == IntersectBoundPlane(st.cells, bound, pl, exh)
    IN IF indices_cells = <<>> THEN [st EXCEPT !.ok = FALSE]
       ELSE Bind(SplitCells([st EXCEPT !.parents = <<>>], indices_cells, pl, workers),
                 LAMBDA r : DeleteParents(r, r.parents))

\* the statements of construct_abspy before the loop
AbspyStart ==
    /\ pc \in {"init", "prioritised"}
    /\ \E exh \in BOOLEAN, w \in 0..MaxWorkers :
          /\ exhaustive' = exh
          /\ num_workers' = w
    /\ cells' = <<bounding_poly>>
    /\ prim_i' = 0
    /\ pc' = "abspy"
    /\ UNCHANGED <<bounding_poly, points, bounds, additional_planes, prio_mode, index_node,
                   th, mode, ordering, partVars, tree, queue, graph, labels, postVars, callVars>>

AbspyPrimitive ==
    /\ pc = "abspy"
    /\ prim_i < Len(bounds)
    /\ \E r \in {PrimitiveStep([g |-> graph, cells |-> cells, index_node |-> index_node,
                                parents |-> <<>>, ok |-> TRUE],
                               At(planes, prim_i), At(bounds, prim_i), exhaustive,
                               num_workers)} :
          IF r.ok
          THEN /\ graph' = r.g
               /\ cells' = r.cells
               /\ index_node' = r.index_node
               /\ prim_i' = prim_i + 1
               /\ pc' = "abspy"
          ELSE /\ pc' = "abspy_raised"
               /\ UNCHANGED <<graph, cells, index_node, prim_i>>
    /\ UNCHANGED <<bounding_poly, points, bounds, additional_planes, prio_mode, exhaustive,
                   num_workers, th, mode, ordering, partVars, tree, queue, labels, postVars, callVars>>

\* self.constructed = True
AbspyFinish ==
    /\ pc = "abspy"
    /\ prim_i = Len(bounds)
    /\ pc' = "abspy_done"
    /\ UNCHANGED <<callVars, inputVars, labels, partVars, tree, queue, graph, cells, postVars>>

\* the additional planes given to the constructor
AdditionalInputs == {<<>>, <<PY>>}

\* the state after CellComplex(..., build_graph=True)
InitAbspy ==
    \E inp \in Inputs, add \in AdditionalInputs :
        /\ bounding_poly = BoundingPoly
        /\ points = [i \in 1..Len(inp) |-> inp[i].points]
        /\ bounds = [i \in 1..Len(inp) |-> PointsBound(inp[i].points)]
        /\ planes = [i \in 1..Len(inp) |-> inp[i].plane]
        /\ halfspaces = [i \in 1..Len(inp) |-> Halfspaces(inp[i].plane)]
        /\ additional_planes = add
        /\ graph = TouchNode(EmptyGraph, 0)
        /\ index_node = 0
        /\ prio_mode = "none"
        /\ exhaustive = FALSE
        /\ num_workers = 0
        /\ prim_i = 0
        /\ th = 0
        /\ mode = "none"
        /\ ordering = "none"
        /\ point_groups = <<>>
        /\ plane_split_count = <<>>
        /\ clone_of = <<>>
        /\ split_count = 0
        /\ cell_count = 0
        /\ neg_cell_count = Undefined
        /\ pos_cell_count = Undefined
        /\ tree = <<>>
        /\ queue = <<>>
        /\ cells = <<>>
        /\ labels = <<>>
        /\ edges = <<>>
        /\ deleted_nodes = {}
        /\ poly_calls = 0
        /\ mesh = <<>>
        /\ polygon = <<>>
        /\ outside = <<>>
        /\ orientation = <<>>
        /\ reference = <<>>
        /\ pc = "init"

NextAbspy ==
    \/ PrioritisePlanes
    \/ AbspyStart
    \/ AbspyPrimitive
    \/ AbspyFinish

SpecAbspy == InitAbspy /\ [][NextAbspy]_vars

----------------------------------------------------------------------------
(* _orient_exact_polygon and _orient_inexact_polygon called on a polygon *)

MaxCorners == 4

\* the corners of the unit cube; the vectors between them have components of
\* equal magnitude, so the normalised floats of the inexact helper give the
\* same zero tests and the same signs as the exact rationals
UnitCube == {<<x, y, z>> : x \in 0..1, y \in 0..1, z \in 0..1}

Coplanar(pts) ==
    \A i \in 4..Len(pts) :
        Dot(Cross(Sub(pts[2], pts[1]), Sub(pts[3], pts[1])), Sub(pts[i], pts[1])) = 0

\* the corner lists handed to the helpers: distinct points of one plane
Polygons == {pts \in UNION {SeqsOf(UnitCube, n) : n \in 3..MaxCorners} : Coplanar(pts)}

\* one call of a helper: raised is TRUE when points[i + 2] is out of range,
\* index is the value of i that gave the cross product the loop stopped on
OrientCall(helper, pts, outside2) ==
    LET k == OrientIndex(pts, 0)
    IN IF k = Undefined
       THEN [helper |-> helper, raised |-> TRUE, index |-> Undefined, reverse |-> FALSE]
       ELSE [helper |-> helper, raised |-> FALSE, index |-> k,
             reverse |-> IF helper = "exact" THEN OrientExactPolygon(pts, outside2)
                         ELSE OrientInexactPolygon(pts, outside2)]

OrientExact ==
    /\ pc = "orient"
    /\ orientation' = OrientCall("exact", polygon, Twice(outside))
    /\ pc' = IF orientation'.raised THEN "orient_raised" ELSE "oriented"
    /\ UNCHANGED <<polygon, outside, reference, inputVars, labels, partVars, tree, queue,
                   graph, cells, postVars>>

OrientInexact ==
    /\ pc = "orient"
    /\ orientation' = OrientCall("inexact", polygon, Twice(outside))
    /\ pc' = IF orientation'.raised THEN "orient_raised" ELSE "oriented"
    /\ UNCHANGED <<polygon, outside, reference, inputVars, labels, partVars, tree, queue,
                   graph, cells, postVars>>

InitOrient ==
    /\ polygon \in Polygons
    /\ outside \in UnitCube
    /\ orientation = <<>>
    /\ reference = <<>>
    /\ bounding_poly = BoundingPoly
    /\ points = <<>>
    /\ bounds = <<>>
    /\ planes = <<>>
    /\ halfspaces = <<>>
    /\ additional_planes = <<>>
    /\ graph = EmptyGraph
    /\ index_node = 0
    /\ prio_mode = "none"
    /\ exhaustive = FALSE
    /\ num_workers = 0
    /\ prim_i = 0
    /\ th = 0
    /\ mode = "none"
    /\ ordering = "none"
    /\ point_groups = <<>>
    /\ plane_split_count = <<>>
    /\ clone_of = <<>>
    /\ split_count = 0
    /\ cell_count = 0
    /\ neg_cell_count = Undefined
    /\ pos_cell_count = Undefined
    /\ tree = <<>>
    /\ queue = <<>>
    /\ cells = <<>>
    /\ labels = <<>>
    /\ edges = <<>>
    /\ deleted_nodes = {}
    /\ poly_calls = 0
    /\ mesh = <<>>
    /\ pc = "orient"

NextOrient ==
    \/ OrientExact
    \/ OrientInexact

SpecOrient == InitOrient /\ [][NextOrient]_vars

----------------------------------------------------------------------------
(* construct_partition called in mode DEPTH and then in mode WIDTH *)

\* the multiset of the entries of a sequence
BagOf(seq) == [x \in Range(seq) |-> Cardinality({i \in 1..Len(seq) : seq[i] = x})]

\* the cell of a node of the graph; a node without convex has none
CellOf(g, n) == IF HasConvex(g, n) THEN g.convex[n] ELSE EmptyPoly

\* what a call leaves behind, without cell ids and clone indices: self.cells as
\* a set of polyhedra, the edges of self.graph as pairs of polyhedra, and the
\* point groups appended for clones
PartitionResult(g, clls, pgs, n) ==
    [cells |-> Range(clls),
     adjacency |-> {{CellOf(g, x) : x \in e} : e \in DOMAIN g.edge},
     clones |-> BagOf(SubSeq(pgs, n + 1, Len(pgs)))]

\* a second call on the same complex: the running arrays are again copies of
\* self.planes, self.halfspaces and self.points, the tree and the graph are new
ConstructPartitionAgain ==
    /\ pc = "constructed"
    /\ mode = "DEPTH"
    /\ reference = <<>>
    /\ reference' = PartitionResult(graph, cells, point_groups, Len(points))
    /\ mode' = "WIDTH"
    /\ planes' = SubSeq(planes, 1, Len(points))
    /\ halfspaces' = SubSeq(halfspaces, 1, Len(points))
    /\ point_groups' = points
    /\ plane_split_count' = [i \in 1..Len(points) |-> 0]
    /\ clone_of' = [i \in 1..Len(points) |-> Undefined]
    /\ split_count' = 0
    /\ cell_count' = 0
    /\ neg_cell_count' = Undefined
    /\ pos_cell_count' = Undefined
    /\ tree' = (0 :> TreeNode(Undefined, bounding_poly, IdSeq(Len(points))))
    /\ queue' = IF Len(points) > 0 THEN <<0>> ELSE <<>>
    /\ graph' = AddNode(EmptyGraph, 0, bounding_poly)
    /\ pc' = "partition"
    /\ UNCHANGED <<bounding_poly, points, bounds, additional_planes, prio_mode, exhaustive,
                   num_workers, index_node, prim_i, th, ordering, cells, labels, postVars,
                   polygon, outside, orientation>>

InitModes == Init /\ mode = "DEPTH"

NextModes ==
    \/ Expand
    \/ FinishPartition
    \/ ConstructPartitionAgain

SpecModes == InitModes /\ [][NextModes]_vars

----------------------------------------------------------------------------
(* Properties of construct_partition *)

\* C1: after construct_partition two distinct leaf cells are joined by an edge
\* of the graph exactly when their intersection has dimension 2, and every
\* edge of the graph joins two distinct leaf cells
C1_AdjacencyIffInterface ==
    pc = "constructed" =>
        /\ \A i \in Leaves(tree), j \in Leaves(tree) :
              i # j => (HasEdge(graph, i, j)
                          <=> Dim(Intersection(tree[i].convex, tree[j].convex)) = 2)
        /\ \A e \in DOMAIN graph.edge : Cardinality(e) = 2 /\ e \subseteq Leaves(tree)

\* C2: after every expansion step and at the end of construct_partition the
\* leaves of the tree are exactly the nodes of the graph
C2_TreeGraphBijection ==
    pc \in {"partition", "constructed"} =>
        /\ NodeSet(graph) = Leaves(tree)
        /\ Len(graph.nodes) = Cardinality(Leaves(tree))

LeafVolumes ==
    LET ls == SortedSeq(Leaves(tree))
    IN SeqSum([i \in 1..Len(ls) |-> Volume(tree[ls[i]].convex)])

CellVolumes == SeqSum([i \in 1..Len(cells) |-> Volume(cells[i])])

\* C3: the volumes of the leaf cells of a constructed complex, and of
\* self.cells, sum to the volume of the bounding box
C3_VolumeSum ==
    pc = "constructed" =>
        /\ LeafVolumes = Volume(bounding_poly)
        /\ CellVolumes = Volume(bounding_poly)

\* a constructed complex in which a child of dimension < 3 was discarded
C3_DiscardedChild ==
    /\ pc = "constructed"
    /\ \E n \in DOMAIN tree : Cardinality(Successors(tree, n)) = 1
    /\ Cardinality(Leaves(tree)) >= 3

\* C4: when construct_partition stops, every tree node with non-empty
\* plane_ids has been expanded: no leaf still holds a primitive
C4_StopsOnlyWhenExpanded ==
    pc \in {"constructed", "partition_raised"} =>
        \A n \in Leaves(tree) : tree[n].plane_ids = <<>>

----------------------------------------------------------------------------
(* Properties of simplify and collapse_convex_intersections *)

\* C5: after simplify has returned no edge joins two cells of equal occupancy
\* with convex_intersection set
C5_SimplifySafety ==
    pc = "simplified" =>
        \A e \in DOMAIN graph.edge : \A a \in e, b \in e :
            e = {a, b} => ~(graph.occ[a] = graph.occ[b] /\ graph.edge[e].convex_intersection)

\* simplify has returned after contracting at least one edge
C5_Contracted == pc = "simplified" /\ deleted_nodes # {}

\* C6: after simplify or collapse_convex_intersections has returned, the
\* leaves of the tree are exactly the nodes of the graph and no edge is a
\* self-loop
C6_SimplifiersKeepBijection ==
    pc \in {"simplified", "collapsed"} =>
        /\ Leaves(tree) = NodeSet(graph)
        /\ \A e \in DOMAIN graph.edge : Cardinality(e) = 2

----------------------------------------------------------------------------
(* Properties of the extracted facets *)

\* the cross product of the first non-degenerate consecutive edge vectors
FacetNormal(pts) ==
    LET k == OrientIndex(pts, 0)
    IN Cross(Sub(pts[k + 2], pts[k + 1]), Sub(pts[k + 3], pts[k + 1]))

\* C7: the normal of every emitted facet points away from the inside cell:
\* normal . (centroid(inside) - vertex0) < 0
C7_NormalPointsOutward ==
    pc \in {"surface", "soup"} =>
        \A k \in 1..Len(mesh) :
            /\ OrientIndex(mesh[k].points, 0) # Undefined
            /\ Dot(FacetNormal(mesh[k].points),
                   Sub(Center2(graph.convex[mesh[k].inside]), Twice(mesh[k].points[1]))) < 0

\* the edges between two cells of different occupancy
BoundaryEdges(g) ==
    {e \in DOMAIN g.edge :
        \E a \in e, b \in e : /\ e = {a, b}
                              /\ HasOcc(g, a) /\ HasOcc(g, b)
                              /\ g.occ[a] # g.occ[b]}

\* C8: the corner list the extractor uses for a boundary edge is the union of
\* the vertices of the edge's intersection polygon and of its vertices list
C8_CornerUnion ==
    pc = "polygons" =>
        \A e \in BoundaryEdges(graph) :
            \A a \in e, b \in e :
                e = {a, b} =>
                    Range(GetIntersection(graph, a, b))
                        = Vertices(graph.edge[e].intersection) \cup Range(graph.edge[e].vertices)

StrictlyInside(c, box) == \A k \in Axes : box.lo[k] < c.lo[k] /\ c.hi[k] < box.hi[k]

\* the occupied cells form a non-empty solid strictly inside the bounding box
ProperLabeling(g, box) ==
    /\ \A n \in NodeSet(g) : HasOcc(g, n) /\ HasConvex(g, n)
    /\ \E n \in NodeSet(g) : g.occ[n] = 1
    /\ \A n \in NodeSet(g) : g.occ[n] = 1 => StrictlyInside(g.convex[n], box)

HalfEdges(f) ==
    [i \in 1..Len(f.points) |-> <<f.points[i], f.points[(i % Len(f.points)) + 1]>>]

HalfEdgeCount(m, u, v) ==
    SeqSum([k \in 1..Len(m) |->
               Cardinality({i \in 1..Len(m[k].points) : HalfEdges(m[k])[i] = <<u, v>>})])

Watertight(m) ==
    \A k \in 1..Len(m) : \A i \in 1..Len(m[k].points) :
        LET he == HalfEdges(m[k])[i]
        IN HalfEdgeCount(m, he[1], he[2]) = 1 /\ HalfEdgeCount(m, he[2], he[1]) = 1

\* C9: under a proper labeling every edge of the mesh of extract_surface is
\* shared by exactly two half-edges of opposite direction
C9_Watertight ==
    (pc = "surface" /\ ProperLabeling(graph, bounding_poly)) => Watertight(mesh)

\* C10: a second call of construct_polygons leaves the graph as it was
C10_SecondCallNoOp ==
    [][(pc = "polygons" /\ pc' = "polygons") => graph' = graph]_vars

RECURSIVE CloneDepth(_)
CloneDepth(id) ==
    IF At(clone_of, id) = Undefined THEN 0 ELSE 1 + CloneDepth(At(clone_of, id))

RECURSIVE CloneRoot(_)
CloneRoot(id) ==
    IF At(clone_of, id) = Undefined THEN id ELSE CloneRoot(At(clone_of, id))

IsClone(id) == At(clone_of, id) # Undefined

RunningIds == {i - 1 : i \in 1..Len(planes)}

\* C11 as stated: every entry of the running arrays has a split count equal to
\* the number of cloning steps that lead from an input primitive to it (0 for
\* an input primitive, the source's count plus one for a clone), and the point
\* groups of the clones derived from one input primitive are pairwise disjoint
\* subsets of that primitive's original point group.
C11_CloneDepthAndDisjoint ==
    /\ \A id \in RunningIds : At(plane_split_count, id) = CloneDepth(id)
    /\ \A id \in RunningIds :
          IsClone(id) => Range(At(point_groups, id)) \subseteq Range(At(points, CloneRoot(id)))
    /\ \A a, b \in RunningIds :
          (a # b /\ IsClone(a) /\ IsClone(b) /\ CloneRoot(a) = CloneRoot(b))
              => Range(At(point_groups, a)) \cap Range(At(point_groups, b)) = {}

\* C11 amended: every entry has a split count equal to its cloning depth, the
\* point group of a clone is a subset of the group of its source, hence of the
\* original group of the input primitive, and the two clones made in one split
\* of a source are disjoint (a clone of a clone shares its points with the
\* clone it was made from, which stays in the arrays).
C11_CloneDepthAndSubsets ==
    /\ \A id \in RunningIds : At(plane_split_count, id) = CloneDepth(id)
    /\ \A id \in RunningIds :
          IsClone(id)
              => /\ Range(At(point_groups, id))
                        \subseteq Range(At(point_groups, At(clone_of, id)))
                 /\ Range(At(point_groups, id)) \subseteq Range(At(points, CloneRoot(id)))
    /\ \A a, b \in RunningIds :
          (a # b /\ IsClone(a) /\ At(clone_of, a) = At(clone_of, b))
              => Range(At(point_groups, a)) \cap Range(At(point_groups, b)) = {}

\* a clone of a clone has been made
C11_SecondGeneration == \E id \in RunningIds : CloneDepth(id) = 2

\* the plane has inliers of the group strictly on both of its sides
Crosses(pl, pts) == LeftPoints(pl, pts) # <<>> /\ RightPoints(pl, pts) # <<>>

\* the positions of current_ids, other than the selected one, whose group the
\* selected plane crosses
CrossedPositions(ids, bestpos) ==
    {k \in 1..Len(ids) :
        k # bestpos /\ Crosses(At(planes, ids[bestpos]), At(point_groups, ids[k]))}

RECURSIVE SizeSum(_, _)
\* the total size of the groups of pgs at the (1-based) positions S
SizeSum(pgs, S) ==
    IF S = {} THEN 0
    ELSE LET k == CHOOSE x \in S : TRUE IN Len(pgs[k]) + SizeSum(pgs, S \ {k})

\* C12 as stated: with th = 1, a step of the builder whose selected plane crosses the point
\* group of exactly one other primitive of the cell raises the reported total
\* (the number of input planes plus split_count) by one, and the sizes of the
\* point groups of the clones made of the crossed primitive sum to the size of
\* its point group.
C12_CrossingClonesKeepPoints ==
    [][ (pc = "partition" /\ pc' = "partition" /\ th = 1 /\ queue # <<>>)
          => LET ids == tree[Head(queue)].plane_ids
                 bestpos == BestPlaneId(ordering, ids, planes, point_groups)
                 crossed == CrossedPositions(ids, bestpos)
             IN Cardinality(crossed) = 1
                  => LET id == ids[CHOOSE k \in crossed : TRUE]
                         clones == {k \in (Len(planes) + 1)..Len(planes') : clone_of'[k] = id}
                     IN /\ split_count' = split_count + 1
                        /\ SizeSum(point_groups', clones) = Len(At(point_groups, id)) ]_vars

\* the parts of a straddling group that are cloned, the left one first
ClonedParts(pl, pts, theta) ==
    (IF Len(LeftPoints(pl, pts)) > theta THEN <<LeftPoints(pl, pts)>> ELSE <<>>)
        \o (IF Len(RightPoints(pl, pts)) > theta THEN <<RightPoints(pl, pts)>> ELSE <<>>)

\* C12 amended: with th = 1, a step whose selected plane crosses the point group
\* of exactly one other primitive of the cell counts a split and appends one
\* clone of that primitive for each of the two parts of its group (the inliers
\* strictly on the negative side, those strictly on the positive side) that has
\* more than th points; the clones' sizes sum to the size of the crossed group
\* exactly when both parts have more than th points and no inlier is on the plane.
C12_ClonesOfBigParts ==
    [][ (pc = "partition" /\ pc' = "partition" /\ th = 1 /\ queue # <<>>)
          => LET ids == tree[Head(queue)].plane_ids
                 bestpos == BestPlaneId(ordering, ids, planes, point_groups)
                 crossed == CrossedPositions(ids, bestpos)
             IN Cardinality(crossed) = 1
                  => LET id == ids[CHOOSE k \in crossed : TRUE]
                         pts == At(point_groups, id)
                         best == At(planes, ids[bestpos])
                         clones == {k \in (Len(planes) + 1)..Len(planes') : clone_of'[k] = id}
                         cs == SortedSeq(clones)
                     IN /\ split_count' >= split_count + 1
                        /\ [r \in 1..Len(cs) |-> point_groups'[cs[r]]] = ClonedParts(best, pts, th)
                        /\ SizeSum(point_groups', clones) = Len(pts)
                              <=> /\ Len(LeftPoints(best, pts)) > th
                                  /\ Len(RightPoints(best, pts)) > th
                                  /\ Len(LeftPoints(best, pts)) + Len(RightPoints(best, pts))
                                        = Len(pts) ]_vars

\* the first split has cloned both parts of a primitive and kept all its points
C12_BothPartsCloned ==
    /\ pc = "partition" /\ th = 1 /\ split_count = 1
    /\ Len(planes) = Len(points) + 2
    /\ clone_of[Len(planes)] = clone_of[Len(planes) - 1]
    /\ Len(point_groups[Len(planes)]) + Len(point_groups[Len(planes) - 1])
          = Len(At(points, clone_of[Len(planes)]))

\* two input primitives whose planes meet inside the bounding box, the inliers
\* of each lying on its plane
PlaneInsideBox(pl) ==
    /\ bounding_poly.lo[AxisOf(pl)] < OffsetOf(pl)
    /\ OffsetOf(pl) < bounding_poly.hi[AxisOf(pl)]

TwoIntersectingPrimitives ==
    /\ Len(points) = 2
    /\ AxisOf(planes[1]) # AxisOf(planes[2])
    /\ \A i \in 1..2 :
          /\ PlaneInsideBox(planes[i])
          /\ \A k \in 1..Len(points[i]) : WhichSide(planes[i], points[i][k]) = 0

\* C13 as stated: for two such primitives the builder with ordering = optimal
\* splits neither primitive and produces 4 cells, every split count being zero.
C13_FourCellsWithoutSplit ==
    (pc = "constructed" /\ ordering = "optimal" /\ TwoIntersectingPrimitives)
        => /\ Len(cells) = 4
           /\ split_count = 0
           /\ \A i \in 1..Len(plane_split_count) : plane_split_count[i] = 0

\* C13 amended: for two such primitives the builder with ordering = optimal
\* produces 3 cells whenever it splits neither primitive, and produces 4 cells
\* only by cloning the primitive that is not selected first into both
\* half-spaces: one split, and two clones whose split count is 1.
C13_FourCellsNeedOneSplit ==
    (pc = "constructed" /\ ordering = "optimal" /\ TwoIntersectingPrimitives)
        => /\ Len(cells) \in 2..4
           /\ split_count = 0 => Len(cells) = 3
           /\ Len(cells) = 4 => /\ split_count = 1
                                /\ plane_split_count = <<0, 0, 1, 1>>
                                /\ clone_of[3] = clone_of[4]

C13_ClonedIntoFourCells ==
    /\ pc = "constructed" /\ ordering = "optimal" /\ TwoIntersectingPrimitives
    /\ Len(cells) = 4 /\ split_count = 1

\* C14: after label_cells the k-th cell carries the k-th value returned by the
\* labeler as its float_occupancy (that single value) and that value rounded
\* to the nearest integer as its occupancy.
C14_KthLabelOnKthCell ==
    pc = "labeled"
        => \A k \in 1..Len(cells) :
              LET n == graph.nodes[k] IN
                /\ graph.float_occupancy[n] = <<labels[k]>>
                /\ graph.occ[n] = Rint(labels[k])
                /\ n \in DOMAIN graph.convex /\ graph.convex[n] = cells[k]

\* the node the builder expands next calls _get_best_plane on its primitives
SelectsBestPlane == pc = "partition" /\ queue # <<>> /\ ordering = "optimal"

CurrentIds == tree[Head(queue)].plane_ids

\* every point of the group strictly on the negative / positive side of the plane
StrictlyLeft(pl, pts) == \A i \in 1..Len(pts) : WhichSide(pl, pts[i]) < 0

StrictlyRight(pl, pts) == \A i \in 1..Len(pts) : WhichSide(pl, pts[i]) > 0

\* L(i) and R(i) as the counters of groups strictly on one side of plane i
StrictL(ids, k, pls, pgs) ==
    Cardinality({j \in 1..Len(ids) :
        j # k /\ StrictlyLeft(At(pls, ids[k]), At(pgs, ids[j]))})

StrictR(ids, k, pls, pgs) ==
    Cardinality({j \in 1..Len(ids) :
        j # k /\ StrictlyRight(At(pls, ids[k]), At(pgs, ids[j]))})

\* C20: in _get_best_plane the left counter of candidate i counts exactly the
\* other groups whose points are all strictly on the negative side of plane i,
\* and the right counter exactly those whose points are all strictly on the
\* positive side: a group with a point on plane i counts toward neither.
C20_CountersAreStrict ==
    SelectsBestPlane
        => \A k \in 1..Len(CurrentIds) :
              /\ LeftCount(CurrentIds, k, planes, point_groups)
                    = StrictL(CurrentIds, k, planes, point_groups)
              /\ RightCount(CurrentIds, k, planes, point_groups)
                    = StrictR(CurrentIds, k, planes, point_groups)

\* candidate k leaves every other group strictly on one of its sides
SeparatesStrictly(ids, k, pls, pgs) ==
    \/ StrictL(ids, k, pls, pgs) = Len(ids) - 1
    \/ StrictR(ids, k, pls, pgs) = Len(ids) - 1

StrictScore(ids, k, pls, pgs) == StrictL(ids, k, pls, pgs) * StrictR(ids, k, pls, pgs)

\* the first separating candidate if there is one, else the first candidate of
\* maximal L(i) * R(i); positions are 1-based here, 0-based in the source
FirstSeparatingElseArgmax(ids, pls, pgs) ==
    IF \E k \in 1..Len(ids) : SeparatesStrictly(ids, k, pls, pgs)
    THEN CHOOSE k \in 1..Len(ids) :
            /\ SeparatesStrictly(ids, k, pls, pgs)
            /\ \A j \in 1..(k - 1) : ~SeparatesStrictly(ids, j, pls, pgs)
    ELSE CHOOSE k \in 1..Len(ids) :
            /\ \A j \in 1..Len(ids) : StrictScore(ids, j, pls, pgs) <= StrictScore(ids, k, pls, pgs)
            /\ \A j \in 1..(k - 1) : StrictScore(ids, j, pls, pgs) < StrictScore(ids, k, pls, pgs)

\* C19: on the primitives S of the node expanded next, with ordering = optimal
\* the selected position is that of the first candidate with L(i) = |S| - 1 or
\* R(i) = |S| - 1 if there is one, else that of the first candidate maximizing
\* L(i) * R(i); it is the first position when |S| = 1; with ordering = input it
\* is always the first position.
C19_SelectedPosition ==
    (pc = "partition" /\ queue # <<>>)
        => LET best == BestPlaneId(ordering, CurrentIds, planes, point_groups) IN
             /\ ordering = "optimal"
                   => best = FirstSeparatingElseArgmax(CurrentIds, planes, point_groups)
             /\ (ordering = "optimal" /\ Len(CurrentIds) = 1) => best = 1
             /\ ordering = "input" => best = 1

\* the edges between two labelled cells of different occupancy whose corner
\* list is not empty: the facets the extractors hand to the angular ordering
OrderedFacets(g) ==
    {e \in BoundaryEdges(g) : g.edge[e].vertices # <<>>}

FacetCorners(g, e) == SortPoints(Range(g.edge[e].vertices))

\* the sequence is a permutation of pts in ascending angle around the centroid
AscendingPermutation(sorted, pts, pl) ==
    LET v == CentredVectors(sorted, pl) IN
      /\ Len(sorted) = Len(pts)
      /\ Range(sorted) = Range(pts)
      /\ \A i \in 1..(Len(sorted) - 1) : AngleLess(v[i], v[i + 1])

\* C18: for a boundary facet with a repeated angle the angular ordering returns
\* null (with a warning) instead of an ordering, and no face is emitted for the
\* facet; for a facet whose angles are all distinct it returns the permutation
\* that sorts the angles ascending.
C18_RepeatedAngleReturnsNull ==
    /\ pc = "polygons"
          => \A e \in OrderedFacets(graph) :
                LET pts == FacetCorners(graph, e)
                    pl == graph.edge[e].supporting_plane
                    srt == SortByAngle(pts, pl)
                IN IF RepeatedAngle(CentredVectors(pts, pl))
                   THEN ~srt.ok /\ ~srt.raised
                   ELSE srt.ok /\ AscendingPermutation(srt.pts, pts, pl)
    /\ pc \in {"surface", "soup"}
          => \A e \in OrderedFacets(graph) :
                RepeatedAngle(CentredVectors(FacetCorners(graph, e), graph.edge[e].supporting_plane))
                    => \A k \in 1..Len(mesh) : {mesh[k].inside, mesh[k].outside} # e

----------------------------------------------------------------------------
(* Properties of prioritise_planes and construct_abspy *)

\* between two primitives and after the last one, sequentially
AbspySequential == pc \in {"abspy", "abspy_done"} /\ num_workers = 0

\* the two nodes are the children of one split
Siblings2(a, b) == \E k \in 0..index_node : k % 2 = 0 /\ {a, b} = {k + 1, k + 2}

\* C15: in a sequential construct_abspy with the graph enabled, after every
\* primitive the nodes of the graph are exactly the current cells, in the same
\* order, and two cells are joined by an edge if and only if their intersection
\* has dimension 2: each split has replaced the parent by its two children and
\* attached every former neighbour to each child it shares a 2D facet with.
C15_AbspyEdgeIffFacet ==
    AbspySequential
        => /\ Len(graph.nodes) = Len(cells)
           /\ \A k \in 1..Len(cells) :
                 LET n == graph.nodes[k] IN
                   IF n \in DOMAIN graph.convex THEN graph.convex[n] = cells[k]
                   ELSE n = 0 /\ cells[k] = bounding_poly
           /\ \A j, k \in 1..Len(cells) :
                 HasEdge(graph, graph.nodes[j], graph.nodes[k])
                     <=> (j # k /\ Dim(Intersection(cells[j], cells[k])) = 2)

\* a finished sequential run with an edge between cells of different splits
\* and with two cells that do not touch in a facet
C15_NeighbourReattached ==
    /\ pc = "abspy_done" /\ num_workers = 0
    /\ \E e \in DOMAIN graph.edge : \E a, b \in e : e = {a, b} /\ a # b /\ ~Siblings2(a, b)
    /\ \E j, k \in 1..Len(cells) :
          j # k /\ ~HasEdge(graph, graph.nodes[j], graph.nodes[k])

RECURSIVE AbspyRun(_, _, _)
\* the loop of construct_abspy from primitive i on, with the given num_workers
AbspyRun(st, i, workers) ==
    IF i = Len(bounds) \/ ~st.ok THEN st
    ELSE AbspyRun(PrimitiveStep(st, At(planes, i), At(bounds, i), exhaustive, workers),
                  i + 1, workers)

\* the graph a run with num_workers = 0 builds on the same input
SequentialGraph ==
    AbspyRun([g |-> TouchNode(EmptyGraph, 0), cells |-> <<bounding_poly>>, index_node |-> 0,
              parents |-> <<>>, ok |-> TRUE], 0, 0).g

\* C16: after construct_abspy with num_workers > 0 the graph of the complex has
\* exactly the edges that a run with num_workers = 0 builds on the same input:
\* the edges the workers determine are written into the complex's own graph.
C16_WorkersSameEdges ==
    (pc = "abspy_done" /\ num_workers > 0)
        => DOMAIN graph.edge = DOMAIN SequentialGraph.edge

\* the order (0-based indices into the primitives) that each mode is to produce
StableDescending(idx, keys) ==
    \A r, q \in 1..Len(idx) :
        r < q => \/ keys[idx[r] + 1] > keys[idx[q] + 1]
                 \/ (keys[idx[r] + 1] = keys[idx[q] + 1] /\ idx[r] < idx[q])

PrioritisedOrder(m, idx, pls, bnds) ==
    IF m = "vertical"
    THEN \A r, q \in 1..Len(idx) :
            r < q => \/ (IsVertical(pls[idx[r] + 1]) /\ ~IsVertical(pls[idx[q] + 1]))
                     \/ (IsVertical(pls[idx[r] + 1]) = IsVertical(pls[idx[q] + 1])
                            /\ idx[r] < idx[q])
    ELSE IF m = "norm"
    THEN StableDescending(idx, [i \in 1..Len(bnds) |-> NormKey(bnds[i])])
    ELSE IF m = "volume"
    THEN StableDescending(idx, [i \in 1..Len(bnds) |-> VolumeKey(bnds[i])])
    ELSE TRUE

\* C17: a call of prioritise_planes completes for each of the modes vertical,
\* norm, volume and random, and leaves the primitives in a permutation of the
\* input order: for vertical, the planes above the slope threshold first and
\* the rest after, each group in input order; for norm (volume), descending L2
\* extent (volume) of the bounding box, equal ones in input order; for random,
\* any permutation; the additional planes are placed before all other planes.
C17_PrioritiseCompletesAndOrders ==
    [][ (pc = "init" /\ pc' \in {"prioritised", "prioritise_raised"})
          => /\ pc' = "prioritised"
             /\ \E idx \in Shuffles(Len(planes)) :
                   /\ PrioritisedOrder(prio_mode', idx, planes, bounds)
                   /\ planes' = additional_planes \o Take(planes, idx)
                   /\ bounds' = [i \in 1..Len(additional_planes) |-> InfiniteBound]
                                  \o Take(bounds, idx)
                   /\ points' = Take(points, idx) ]_vars


----------------------------------------------------------------------------
(* Properties of the plane bookkeeping of construct_partition *)

\* the nodes of the tree that have not been expanded
Unexpanded(t) == Leaves(t)

\* C21: in every expansion the selected plane is consumed: its index is in the
\* plane_ids of neither child, and every index given to a child is an index of
\* the expanded node or a fresh clone index, so it never reaches a descendant;
\* the plane_ids of the nodes created earlier do not change; after the step any
\* two unexpanded nodes have disjoint plane_ids (in particular the two children),
\* and the point groups seen by the other unexpanded nodes are unchanged.
C21_SelectedPlaneConsumed ==
    [][ (pc = "partition" /\ pc' = "partition" /\ queue # <<>>)
          => LET child == Head(queue)
                 ids == tree[child].plane_ids
                 best_id == ids[BestPlaneId(ordering, ids, planes, point_groups)]
                 new == (DOMAIN tree') \ (DOMAIN tree)
             IN /\ \A n \in DOMAIN tree : n \in DOMAIN tree' /\ tree'[n] = tree[n]
                /\ \A n \in new :
                      /\ tree'[n].parent = child
                      /\ best_id \notin Range(tree'[n].plane_ids)
                      /\ \A id \in Range(tree'[n].plane_ids) :
                            id \in Range(ids) \/ (id >= Len(planes) /\ id < Len(planes'))
                /\ \A a, b \in Unexpanded(tree') :
                      a # b => Range(tree'[a].plane_ids) \cap Range(tree'[b].plane_ids) = {}
                /\ \A n \in Unexpanded(tree') \ new :
                      \A id \in Range(tree'[n].plane_ids) :
                          At(point_groups', id) = At(point_groups, id) ]_vars

\* two unexpanded nodes hold primitives, one of them a clone made by the
\* expansion of their common ancestor
C21_TwoPendingNodes ==
    /\ pc = "partition"
    /\ \E a, b \in Unexpanded(tree) :
          /\ a # b
          /\ tree[a].plane_ids # <<>>
          /\ tree[b].plane_ids # <<>>
          /\ \E id \in Range(tree[a].plane_ids) : IsClone(id)


\* C22: the input groups all have more than th points (Init), and whenever
\* _split_planes is about to run on a node, every primitive of the node other
\* than the selected one has a current point group of more than th points, so
\* the assertion on the examined group holds.
C22_AssertionNeverFails ==
    (pc = "partition" /\ queue # <<>>)
        => LET ids == tree[Head(queue)].plane_ids
               bestpos == BestPlaneId(ordering, ids, planes, point_groups)
           IN \A k \in 1..Len(ids) :
                  ids[k] # ids[bestpos] => GroupBigEnough(At(point_groups, ids[k]), th)


\* the edges of an expansion that join an old neighbour of the split cell to
\* one of its children
ReattachedEdges(g, h, u, children) ==
    {e \in DOMAIN h.edge : \E m \in Range(g.adj[u]), c \in children : e = {m, c}}

\* the old neighbour on a reattached edge
OldEnd(e, children) == CHOOSE m \in e : m \notin children

C24_EdgesOnlyToKeptChild ==
    [][ (pc = "partition" /\ pc' = "partition" /\ queue # <<>>)
          => LET u == Head(queue)
                 children == (DOMAIN tree') \ (DOMAIN tree)
                 added == (DOMAIN graph'.edge) \ (DOMAIN graph.edge)
             IN Cardinality(children) = 1
                  => /\ \A e \in added :
                           \E m \in Range(graph.adj[u]), c \in children : m # c /\ e = {m, c}
                     /\ \A n \in NodeSet(graph') : HasConvex(graph', n) ]_vars


----------------------------------------------------------------------------
(* Properties of the orientation helpers *)

\* C26: for every polygon with at least 3 corners whose first three corners
\* are not collinear, a call of either helper does not index past the last
\* corner and stops its loop on the cross product of the first three corners.
C26_StopsAtFirstTriple ==
    (pc \in {"oriented", "orient_raised"}
        /\ Cross(Sub(polygon[2], polygon[1]), Sub(polygon[3], polygon[1])) # <<0, 0, 0>>)
        => /\ orientation.raised = FALSE
           /\ orientation.index = 0


\* the corners of the facet of mesh[k] in the angular order the sort returned
AngularOrder(k) ==
    SortByAngle(GetIntersection(graph, mesh[k].inside, mesh[k].outside),
                graph.edge[{mesh[k].inside, mesh[k].outside}].supporting_plane).pts

\* twice n . (o - p0) for the facet of mesh[k] with angular order srt: n the
\* cross product of the edge vectors p1 - p0 and p2 - p0, o the centroid of the
\* cell of occupancy 0
OutsideDot(k, srt) ==
    LET o == CHOOSE n \in {mesh[k].inside, mesh[k].outside} : graph.occ[n] = 0
    IN Dot(Cross(Sub(srt[2], srt[1]), Sub(srt[3], srt[1])),
           Sub(Center2(graph.convex[o]), Twice(srt[1])))

\* the facet mesh[k] is srt reversed when the dot product has the sign s, and
\* srt itself when it has the opposite sign
ReversedOnSign(k, srt, s) ==
    \E d \in {s * OutsideDot(k, srt)} :
        /\ d > 0 => mesh[k].points = Reverse(srt)
        /\ d < 0 => mesh[k].points = srt

\* C25 as stated: an emitted facet is the reversed angular order exactly when
\* n . (o - p0) > 0, and the angular order itself when n . (o - p0) < 0.
C25_ReversedWhenPositive ==
    pc \in {"surface", "soup"} =>
        \A k \in 1..Len(mesh) : \E srt \in {AngularOrder(k)} : ReversedOnSign(k, srt, 1)

\* C25 amended: an emitted facet is the reversed angular order exactly when
\* n . (o - p0) < 0, and the angular order itself when n . (o - p0) > 0.
C25_ReversedWhenNegative ==
    pc \in {"surface", "soup"} =>
        \A k \in 1..Len(mesh) : \E srt \in {AngularOrder(k)} : ReversedOnSign(k, srt, -1)

\* a surface with a facet that was reversed and a facet that was left as sorted
C25_BothOrientations ==
    /\ pc = "surface"
    /\ \E k \in 1..Len(mesh) : \E srt \in {AngularOrder(k)} :
          OutsideDot(k, srt) < 0 /\ mesh[k].points = Reverse(srt)
    /\ \E k \in 1..Len(mesh) : \E srt \in {AngularOrder(k)} :
          OutsideDot(k, srt) > 0 /\ mesh[k].points = srt


----------------------------------------------------------------------------
(* Properties of the convex_intersection flag *)

\* the edges marked as convex intersections
ConvexEdges(g) == {e \in DOMAIN g.edge : g.edge[e].convex_intersection}

\* the two ends of the edge are sibling leaves of the tree, and the convex of
\* their parent is the convex hull of their two cells
SiblingLeaves(g, t, e) ==
    \E a, b \in e :
        /\ a # b
        /\ {a, b} \subseteq Leaves(t)
        /\ t[a].parent = t[b].parent
        /\ t[a].parent # Undefined
        /\ HasConvex(g, a) /\ HasConvex(g, b)
        /\ t[a].convex = g.convex[a] /\ t[b].convex = g.convex[b]
        /\ t[t[a].parent].convex = ConvexHull(g.convex[a], g.convex[b])

MarkedEdgesJoinSiblings ==
    pc \in {"partition", "constructed", "labeled", "simplify", "simplified"}
        => \A e \in ConvexEdges(graph) : SiblingLeaves(graph, tree, e)

\* C27: during and after construct_partition and after every contraction of
\* simplify, every edge with convex_intersection = true joins two sibling
\* leaves of the tree whose parent's convex is the convex hull of the two
\* cells; the convex simplify assigns to the surviving cell of a contraction is
\* the convex hull of the two contracted cells.
C27_ConvexEdgesJoinSiblings ==
    [][ /\ MarkedEdgesJoinSiblings'
        /\ (pc = "simplify" /\ pc' = "simplify" /\ deleted_nodes' # deleted_nodes)
              => LET c0 == Head(edges)[1]
                     c1 == Head(edges)[2]
                 IN graph'.convex[c0] = ConvexHull(graph.convex[c0], graph.convex[c1]) ]_vars

\* simplify has contracted two cells and marked the edge between the merged
\* cell and its new sibling
C27_MarkedAfterContraction ==
    /\ pc = "simplify"
    /\ deleted_nodes # {}
    /\ \E e \in ConvexEdges(graph) : \E a, b \in e : a - b >= 2


\* C28: once simplify has computed its qualifying edges it does not raise:
\* every iteration of its loop leaves it running, until no qualifying edge is
\* left and it returns.
C28_SimplifyReachesFixedPoint ==
    [][ pc = "simplify" => pc' \in {"simplify", "simplified"} ]_vars


----------------------------------------------------------------------------
(* Properties of the arrays reordered by prioritise_planes *)

\* C30: after prioritise_planes has returned, the four per-primitive arrays
\* have one entry per plane and entry i of each describes the same primitive:
\* halfspaces[i] are the half-spaces of planes[i], and for an input primitive
\* planes[i] and points[i] are the plane and the inliers of one primitive of
\* the input and bounds[i] is the bounding box of points[i] (the infinite
\* bound for an additional plane).
C30_RecordsStayAligned ==
    pc = "prioritised" =>
        /\ Len(bounds) = Len(planes)
        /\ Len(points) = Len(planes)
        /\ Len(halfspaces) = Len(planes)
        /\ \A i \in 1..Len(planes) :
              /\ halfspaces[i] = Halfspaces(planes[i])
              /\ IF i <= Len(additional_planes) THEN bounds[i] = InfiniteBound
                 ELSE /\ Prim(planes[i], points[i]) \in Catalogue
                      /\ bounds[i] = PointsBound(points[i])


----------------------------------------------------------------------------
(* Properties of the traversal mode *)

\* C29: for the same primitives, bounding box, ordering and th, the call in
\* mode WIDTH leaves the same set of cells, the same adjacency between them and
\* the same multiset of clone point groups as the call in mode DEPTH.
C29_DepthAndWidthAgree ==
    (pc = "constructed" /\ mode = "WIDTH" /\ reference # <<>>)
        => reference = PartitionResult(graph, cells, point_groups, Len(points))

====
